---- MODULE Spec2Model ----
(***************************************************************************)
(* Session Execution Engine of the browser-automation backend.             *)
(*                                                                         *)
(* One session (sid) is driven by the HTTP endpoints of                    *)
(* app/api/endpoints/sessions.py, by the coroutines of                     *)
(* app/services/agent_service.py (run_agent_task, stop_agent_task, the     *)
(* Frame Pump), by the WebSocket start_stream/stop_stream handlers of      *)
(* app/services/websocket.py and by app/services/cdp_stream_service.py.    *)
(*                                                                         *)
(* Scheduling model: asyncio, one event loop.  The code between two awaits *)
(* that really suspend (browser I/O, LLM calls, awaiting another task,     *)
(* sleeps) is one atomic action.  The record store client is synchronous   *)
(* (supabase .execute()), so `await db.*` does not suspend; the same is    *)
(* taken for notify_session.                                               *)
(***************************************************************************)
EXTENDS Integers, Sequences, FiniteSets, TLC

\* ------------------------------------------------------------------ bounds
MaxRuns == 2
MaxCancels == 1
MaxFrames == 2
MaxStreams == 2
MaxSends == 2
MaxCallers == 2
MaxMarkSessions == 2
MaxConnections == 2
MaxToolSessions == 2
MaxPublishes == 2

Runs == 1..MaxRuns
Cancels == 1..MaxCancels
Streams == 1..MaxStreams
Sends == 1..MaxSends
Callers == 1..MaxCallers
MarkSessions == 1..MaxMarkSessions
Connections == 1..MaxConnections
ToolSessions == 1..MaxToolSessions
NotifySessions == {"s1", "s2"}
None == <<"None">>

\* The session the model follows (registries are dicts keyed by session id).
sid == "s1"

Terminal == {"completed", "failed", "cancelled"}
TerminalEvents == {"session_complete", "session_stopped", "error"}

\* ------------------------------------------------------------ dict helpers
Put(f, k, v) == [x \in DOMAIN f \cup {k} |-> IF x = k THEN v ELSE f[x]]
Del(f, k) == [x \in DOMAIN f \ {k} |-> f[x]]
EmptyDict == [x \in {} |-> 0]

VARIABLES
    status,            \* browser_sessions.status of sid
    published,         \* number of events published per terminal event name
    running_agents,    \* dict sid -> run whose Agent is registered
    running_browsers,  \* dict sid -> run whose Browser is registered
    stop_flags,        \* dict sid -> TRUE
    streaming_tasks,   \* dict sid -> pump task (named by the run that made it)
    active_tasks,      \* dict sid -> managed run task
    pc,                \* position of each run_agent_task invocation
    mode,              \* how the run was launched: background | managed
    cancel_req,        \* runs whose task has a CancelledError to be delivered
    outcome,           \* how the try block of the run ended
    summary_tasks,     \* runs whose background summary task has not finished
    browser,           \* the Browser object each run created
    rwait,             \* the pump task a run awaits in stop_streaming
    pump,              \* state of each stream_cdp_screencast task
    pump_cancel,       \* pump tasks with a CancelledError to be delivered
    screencast_on,     \* pumps whose Page.startScreencast is in force
    frame_count,       \* handle_frame's counter, per pump
    handlers,          \* handle_frame tasks created and not yet run, per pump
    frames_emitted,    \* frames and polls produced so far (bounded)
    stream_events,     \* screenshot_stream payloads in publish order
    last_pump,         \* the pump task start_streaming created last (0: none)
    streaming_stopped, \* stop_streaming returned and no pump was created since
    cpc,               \* position of each cancel request
    cwait,             \* the task a cancel request awaits
    cancel_in_loop,    \* a cancel request arrived while an Agent loop ran
    active_sessions,   \* CDPStreamerService.active_sessions: sid -> loop task
    sl,                \* state of each start_stream call / _stream_loop task
    browser_mode,      \* settings.BROWSER_MODE (with CDP_URL when container)
    cache              \* a plan is stored under the session's (task, url) key

\* handle_frame of one screencast, frame by frame
VARIABLES
    ack_rx,            \* CDP sessionId of each Page.screencastFrame received, in order
    ack_tasks,         \* handle_frame tasks created and not yet run (frame numbers)
    ack_count,         \* frame_count of the screencast
    ack_pub,           \* frameId of each screenshot_stream published, in order
    ack_sent,          \* Page.screencastFrameAck commands sent, in order
    ack_done           \* frames whose handle_frame task has ended

\* stream_screenshots_fallback, iteration by iteration
VARIABLES
    fb_failures,       \* consecutive_failures of stream_screenshots_fallback
    fb_last,           \* last_screenshot_hash ("none" before the first publish)
    fb_streak,         \* iterations that failed in a row, counted by what happened
    fb_polls,          \* iterations made so far (bounded)
    fb_exit            \* running, or why the loop ended: failures | stopped

\* CDP client
VARIABLES
    ws,                \* CDPClient.ws: none, open or closed
    listen_task,       \* CDPClient.listen_task: none, running, cancelled, ended
    command_id,        \* CDPClient.command_id
    pending_commands,  \* CDPClient.pending_commands: command id -> the send whose future it holds
    send_pc,           \* where each call of send is: idle, connecting, writing, waiting, done
    send_cid,          \* the id each call of send took (-1 before)
    send_outcome,      \* how each call of send ended
    future,            \* the future each call of send created: none, pending, result, exception, cancelled
    wire,              \* ids of the command frames written to the socket, in order
    replied,           \* ids of the reply frames the reader has read
    cdp_disconnected,  \* disconnect() has returned and connect() was not called since
    send_closed,       \* the call of send began while cdp_disconnected
    send_cut,          \* the call of send was waiting when disconnect() ran
    resolved_by        \* the id of the reply frame that resolved the call (-1: none)

\* CDP events
VARIABLES
    on_calls,          \* method names under which a caller asked CDPClient to register a callback, in order
    events_rx,         \* method names of the event frames the reader has read, in order
    callbacks_run      \* callback invocations made by the reader: <<index in on_calls, index in events_rx>>

\* CDP dispatcher
VARIABLES
    dsp_call,          \* the dispatcher action in progress: its name and arguments
    dsp_pc,            \* where the action is: idle, move, press, release, insert, down, up, done, failed
    dsp_i,             \* iterations of click's for loop completed
    dsp_sent,          \* the commands the action handed to client.send that were written, in order
    dsp_inflight,      \* a client.send of the action is awaiting its reply
    dsp_replies        \* replies received by the action's sends

\* cache key
VARIABLES
    ck_goal,           \* the goal of each _generate_key call made (a string as a sequence of characters)
    ck_url,            \* the url of each _generate_key call made
    ck_key             \* the key each call returned

\* action cache
VARIABLES
    store,             \* table cached_plans: cache_key -> <<actions, success_count>>
    last_put,          \* cache_key -> the actions of the last cache_plan call that reached the table
    get_pc,            \* where each caller's get_cached_plan is: idle, hit, done
    get_key,           \* the key of each caller's lookup
    get_read,          \* the row each caller's select returned
    get_ret,           \* what each caller's get_cached_plan returned: actions or None
    get_expect,        \* last_put under the lookup's key when the select ran (None: no put)
    gets_made,         \* lookups started
    puts_made          \* cache_plan calls made

\* one run in detail
VARIABLES
    rn_pc,             \* where the run is from the cache lookup on: lookup, replay, agent, done
    rn_plan,           \* cached_actions: what get_cached_plan returned (None on a miss)
    rn_client,         \* cdp_client is set
    rn_i,              \* cached actions replayed so far
    rn_dispatched,     \* the cached actions handed to the dispatcher that returned, in order
    rn_events,         \* events published from the lookup on: <<name, what it says>>
    rn_status,         \* browser_sessions.status written by the run (none: not yet)
    rn_actions_count,  \* browser_sessions.actions_count written by the run
    rn_method,         \* how the run wrote completed: none, replay, agent
    rn_step_count,     \* step_count of on_step_end
    rn_records,        \* rows of browser_actions (success = true) inserted by the run
    rn_agent_ran,      \* agent.run was called
    rn_cache_plans,    \* calls of action_cache.cache_plan by the run
    rn_replay_failed,  \* a replayed action raised
    rn_early           \* the step at which early stopping triggered (0: it did not)

\* intervention
VARIABLES
    iv_calls,          \* intervene_agent calls made: <<agent registered, agent has add_new_task, returned, status at the call>>
    iv_tasks,          \* messages appended to the Agent by add_new_task
    iv_events          \* intervention events published

\* Set-of-Marks
VARIABLES
    owl_available,     \* owl_vision.is_available(): the detector of the process-wide OWLVisionService is ready
    _current_marks,    \* owl_vision._current_marks: marks <<mark_id, center_x, center_y>> of the last analysis that finished
    mk_browsers,       \* sessions with an entry in running_browsers
    mk_elements,       \* element list of the last analysis that finished (a bounding box <<x, y, w, h>> or << >> each)
    mk_owner,          \* <<session, screenshot number>> of the analysis that wrote _current_marks
    mk_shots,          \* per session, the number of its most recent screenshot
    mk_click,          \* last click_by_mark call: <<session, mark_id, success, coordinates, marks at the call, owner at the call, session's screenshot number at the call, browser registered and vision available>>
    mk_mouse_clicks    \* page.mouse.click calls made, as <<session, x, y>>

\* connecting to CDP
VARIABLES
    cn_pc,             \* position of the run: idle, attempt, check, sleep, browser, running, finally, done
    cn_remote,         \* BROWSER_MODE is container or custom and CDP_URL is set
    cn_clock,          \* event-loop time in seconds
    cn_start,          \* start_time of wait_for_cdp
    cn_wait_ret,       \* return value of wait_for_cdp: none, true, false
    cn_status,         \* stored status of the session
    cn_error_message,  \* stored error_message
    cn_events,         \* events published by the run
    cn_did             \* what the run did so far: register, start_streaming, cdp_client

\* notification rooms
VARIABLES
    nt_connected,      \* Socket.IO connections that are open
    nt_rooms,          \* per session, the members of room session:<id>, in order of entry
    nt_subscribed,     \* pairs <<connection, session>>: the connection sent subscribe for the session and is still open
    nt_log,            \* one entry per notify_session call: <<session, connections subscribed at that moment, returned normally>>
    nt_delivered       \* per connection, the numbers of the notify_session calls whose event it received

\* task decomposition
VARIABLES
    sb_subtasks,       \* decomposition.subtasks: a list of <<index, dependencies>>
    sb_completed,      \* completed_indices
    sb_next            \* what get_next_subtask returned for them; <<"unset">> before a call

\* termination order
VARIABLES
    tm_pc,             \* position of the run: idle, try, stop_streaming, closing, disconnect, done
    tm_exit,           \* how the try block is left: completion, replay, failure, cancellation
    tm_client,         \* cdp_client is set
    tm_streaming,      \* the session has an entry in streaming_tasks
    tm_pump,           \* the pump task: running, cancelling (cancel() called), done
    tm_stop,           \* position of a concurrent stop_agent_task: none, await_pump, returned
    tm_log             \* what happened, in order: pump_exited, agents_removed, flag_cleared, browser_closed, browser_close_failed, cdp_disconnected

\* replay of any plan
VARIABLES
    rp_pc,             \* position of replay_cached_plan: idle, loop, done
    rp_plan,           \* cached_actions as read from the store: a list of <<type, required fields present>>
    rp_client,         \* cdp_client of the run: none, connected, broken (set, but its socket cannot be opened)
    rp_i,              \* index of the next cached action
    rp_dispatched,     \* indices of the cached actions for which a dispatcher call returned
    rp_status,         \* status written by the replay path: none, completed
    rp_actions_count   \* actions_count written with it

\* CDP tools
VARIABLES
    tl_run,            \* per session, the state of its run: idle, running, done
    tl_client,         \* per session, the cdp_client of its run: none, connected, unconnected, disconnected
    tl_dispatcher,     \* controller_service.cdp_dispatcher: the session whose client it wraps, 0 for None
    tl_calls           \* CDP tool calls made: <<calling session, session whose client was used (0: error CDP not initialized), state of that client>>

vars == <<status, published, running_agents, running_browsers, stop_flags,
          streaming_tasks, active_tasks, pc, mode, cancel_req, outcome,
          summary_tasks, browser, rwait, pump, pump_cancel,
          screencast_on, frame_count, handlers, frames_emitted, stream_events,
          last_pump, streaming_stopped, cpc, cwait, cancel_in_loop, active_sessions, sl,
          browser_mode, cache,
          ack_rx, ack_tasks, ack_count, ack_pub, ack_sent, ack_done,
          fb_failures, fb_last, fb_streak, fb_polls, fb_exit,
          ws, listen_task, command_id, pending_commands, send_pc, send_cid, send_outcome, future, wire, replied, cdp_disconnected, send_closed, send_cut, resolved_by,
          on_calls, events_rx, callbacks_run,
          dsp_call, dsp_pc, dsp_i, dsp_sent, dsp_inflight, dsp_replies,
          ck_goal, ck_url, ck_key,
          store, last_put, get_pc, get_key, get_read, get_ret, get_expect, gets_made, puts_made,
          rn_pc, rn_plan, rn_client, rn_i, rn_dispatched, rn_events, rn_status, rn_actions_count, rn_method, rn_step_count, rn_records, rn_agent_ran, rn_cache_plans, rn_replay_failed, rn_early,
          iv_calls, iv_tasks, iv_events,
          owl_available, _current_marks, mk_browsers, mk_elements, mk_owner, mk_shots, mk_click, mk_mouse_clicks,
          cn_pc, cn_remote, cn_clock, cn_start, cn_wait_ret, cn_status, cn_error_message, cn_events, cn_did,
          nt_connected, nt_rooms, nt_subscribed, nt_log, nt_delivered,
          sb_subtasks, sb_completed, sb_next,
          tm_pc, tm_exit, tm_client, tm_streaming, tm_pump, tm_stop, tm_log,
          rp_pc, rp_plan, rp_client, rp_i, rp_dispatched, rp_status, rp_actions_count,
          tl_run, tl_client, tl_dispatcher, tl_calls>>

\* groups for UNCHANGED
registries == <<running_agents, running_browsers, stop_flags, streaming_tasks,
                active_tasks>>
runvars == <<pc, mode, cancel_req, outcome, summary_tasks, browser,
             rwait>>
pumpvars == <<pump, pump_cancel, screencast_on, frame_count, handlers,
              frames_emitted, stream_events, last_pump, streaming_stopped>>
cancelvars == <<cpc, cwait, cancel_in_loop>>
wsvars == <<active_sessions, sl>>
envvars == <<browser_mode, cache>>
enginevars == <<status, published, registries, runvars, pumpvars, cancelvars, wsvars,
                envvars>>
ackvars == <<ack_rx, ack_tasks, ack_count, ack_pub, ack_sent, ack_done>>
fbvars == <<fb_failures, fb_last, fb_streak, fb_polls, fb_exit>>
cdpvars == <<ws, listen_task, command_id, pending_commands, send_pc, send_cid, send_outcome, future, wire, replied, cdp_disconnected, send_closed, send_cut, resolved_by>>
evvars == <<on_calls, events_rx, callbacks_run>>
dspvars == <<dsp_call, dsp_pc, dsp_i, dsp_sent, dsp_inflight, dsp_replies>>
keyvars == <<ck_goal, ck_url, ck_key>>
cachevars == <<store, last_put, get_pc, get_key, get_read, get_ret, get_expect, gets_made, puts_made>>
rnvars == <<rn_pc, rn_plan, rn_client, rn_i, rn_dispatched, rn_events, rn_status, rn_actions_count, rn_method, rn_step_count, rn_records, rn_agent_ran, rn_cache_plans, rn_replay_failed, rn_early>>
ivvars == <<iv_calls, iv_tasks, iv_events>>
mkvars == <<owl_available, _current_marks, mk_browsers, mk_elements, mk_owner, mk_shots, mk_click, mk_mouse_clicks>>
cnvars == <<cn_pc, cn_remote, cn_clock, cn_start, cn_wait_ret, cn_status, cn_error_message, cn_events, cn_did>>
ntvars == <<nt_connected, nt_rooms, nt_subscribed, nt_log, nt_delivered>>
sbvars == <<sb_subtasks, sb_completed, sb_next>>
tmvars == <<tm_pc, tm_exit, tm_client, tm_streaming, tm_pump, tm_stop, tm_log>>
rpvars == <<rp_pc, rp_plan, rp_client, rp_i, rp_dispatched, rp_status, rp_actions_count>>
tlvars == <<tl_run, tl_client, tl_dispatcher, tl_calls>>
compvars == <<ackvars, fbvars, cdpvars, evvars, dspvars, keyvars, cachevars, rnvars, ivvars, mkvars, cnvars, ntvars, sbvars, tmvars, rpvars, tlvars>>

Init ==
    /\ status = "pending"
    /\ published = [e \in TerminalEvents |-> 0]
    /\ running_agents = EmptyDict
    /\ running_browsers = EmptyDict
    /\ stop_flags = EmptyDict
    /\ streaming_tasks = EmptyDict
    /\ active_tasks = EmptyDict
    /\ pc = [r \in Runs |-> "idle"]
    /\ mode = [r \in Runs |-> "none"]
    /\ cancel_req = {}
    /\ outcome = [r \in Runs |-> "none"]
    /\ summary_tasks = {}
    /\ browser = [r \in Runs |-> "none"]
    /\ rwait = [r \in Runs |-> 0]
    /\ pump = [r \in Runs |-> "none"]
    /\ pump_cancel = {}
    /\ screencast_on = {}
    /\ frame_count = [r \in Runs |-> 0]
    /\ handlers = [r \in Runs |-> 0]
    /\ frames_emitted = 0
    /\ stream_events = << >>
    /\ last_pump = 0
    /\ streaming_stopped = FALSE
    /\ cpc = [c \in Cancels |-> "idle"]
    /\ cwait = [c \in Cancels |-> 0]
    /\ cancel_in_loop = FALSE
    /\ active_sessions = EmptyDict
    /\ sl = [k \in Streams |-> "idle"]
    /\ browser_mode \in {"direct", "container"}
    /\ cache = FALSE
    /\ ack_rx = << >>
    /\ ack_tasks = << >>
    /\ ack_count = 0
    /\ ack_pub = << >>
    /\ ack_sent = << >>
    /\ ack_done = {}
    /\ fb_failures = 0
    /\ fb_last = "none"
    /\ fb_streak = 0
    /\ fb_polls = 0
    /\ fb_exit = "running"
    /\ ws = "none"
    /\ listen_task = "none"
    /\ command_id = 0
    /\ pending_commands = EmptyDict
    /\ send_pc = [c \in Sends |-> "idle"]
    /\ send_cid = [c \in Sends |-> -1]
    /\ send_outcome = [c \in Sends |-> "none"]
    /\ future = [c \in Sends |-> "none"]
    /\ wire = << >>
    /\ replied = {}
    /\ cdp_disconnected = FALSE
    /\ send_closed = [c \in Sends |-> FALSE]
    /\ send_cut = [c \in Sends |-> FALSE]
    /\ resolved_by = [c \in Sends |-> -1]
    /\ on_calls = << >>
    /\ events_rx = << >>
    /\ callbacks_run = << >>
    /\ dsp_call = <<"none">>
    /\ dsp_pc = "idle"
    /\ dsp_i = 0
    /\ dsp_sent = << >>
    /\ dsp_inflight = FALSE
    /\ dsp_replies = 0
    /\ ck_goal = << >>
    /\ ck_url = << >>
    /\ ck_key = << >>
    /\ store = EmptyDict
    /\ last_put = EmptyDict
    /\ get_pc = [c \in Callers |-> "idle"]
    /\ get_key = [c \in Callers |-> None]
    /\ get_read = [c \in Callers |-> None]
    /\ get_ret = [c \in Callers |-> None]
    /\ get_expect = [c \in Callers |-> None]
    /\ gets_made = 0
    /\ puts_made = 0
    /\ rn_pc = "lookup"
    /\ rn_plan = None
    /\ rn_client = FALSE
    /\ rn_i = 0
    /\ rn_dispatched = << >>
    /\ rn_events = << >>
    /\ rn_status = "none"
    /\ rn_actions_count = 0
    /\ rn_method = "none"
    /\ rn_step_count = 0
    /\ rn_records = 0
    /\ rn_agent_ran = FALSE
    /\ rn_cache_plans = 0
    /\ rn_replay_failed = FALSE
    /\ rn_early = 0
    /\ iv_calls = << >>
    /\ iv_tasks = 0
    /\ iv_events = 0
    /\ owl_available = FALSE
    /\ _current_marks = << >>
    /\ mk_browsers = {}
    /\ mk_elements = << >>
    /\ mk_owner = <<0, 0>>
    /\ mk_shots = [s \in MarkSessions |-> 0]
    /\ mk_click = << >>
    /\ mk_mouse_clicks = << >>
    /\ cn_pc = "idle"
    /\ cn_remote = FALSE
    /\ cn_clock = 0
    /\ cn_start = 0
    /\ cn_wait_ret = "none"
    /\ cn_status = "active"
    /\ cn_error_message = None
    /\ cn_events = << >>
    /\ cn_did = {}
    /\ nt_connected = {}
    /\ nt_rooms = [s \in NotifySessions |-> << >>]
    /\ nt_subscribed = {}
    /\ nt_log = << >>
    /\ nt_delivered = [c \in Connections |-> << >>]
    /\ sb_subtasks = << >>
    /\ sb_completed = {}
    /\ sb_next = <<"unset">>
    /\ tm_pc = "idle"
    /\ tm_exit = "none"
    /\ tm_client = FALSE
    /\ tm_streaming = FALSE
    /\ tm_pump = "done"
    /\ tm_stop = "none"
    /\ tm_log = << >>
    /\ rp_pc = "idle"
    /\ rp_plan = << >>
    /\ rp_client = "none"
    /\ rp_i = 0
    /\ rp_dispatched = {}
    /\ rp_status = "none"
    /\ rp_actions_count = 0
    /\ tl_run = [s \in ToolSessions |-> "idle"]
    /\ tl_client = [s \in ToolSessions |-> "none"]
    /\ tl_dispatcher = 0
    /\ tl_calls = << >>

\* ----------------------------------------------------------------- helpers
\* should_stop(session_id): stop_flags.get(session_id, False)
should_stop == IF sid \in DOMAIN stop_flags THEN stop_flags[sid] ELSE FALSE

\* db.update_session_status(session_id, status, ...): the row's status column
\* is overwritten unconditionally with the given value.
update_session_status(new) == new

\* notify_session(session_id, event, payload) for a terminal event name
notify_session(e) == [published EXCEPT ![e] = @ + 1]

\* The next run_agent_task invocation not yet used (runs are taken in order).
HasIdleRun == \E r \in Runs : pc[r] = "idle"
NextRun == CHOOSE r \in Runs : pc[r] = "idle" /\ \A q \in Runs : q < r => pc[q] # "idle"
NextCancel == CHOOSE c \in Cancels : cpc[c] = "idle" /\ \A d \in Cancels : d < c => cpc[d] # "idle"

\* ------------------------------------------------------------- endpoints
\* POST /sessions/{id}/start: status := active, run_agent_task(session_id, task,
\* token, agent_config) added as a background task.  No check of the current
\* status and none for a run already in progress.
start_session ==
    /\ HasIdleRun
    /\ status' = update_session_status("active")
    /\ pc' = [pc EXCEPT ![NextRun] = "queued"]
    /\ mode' = [mode EXCEPT ![NextRun] = "background"]
    /\ UNCHANGED <<published, registries, cancel_req, outcome, summary_tasks, browser, rwait, pumpvars, cancelvars, wsvars, envvars, compvars>>

\* POST /sessions/{id}/resume: status := active, run_agent_task(session_id, task,
\* token) added as a background task.  The run differs from one launched by
\* start only in having no agent_config, so it does not await
\* owl_vision.initialize(); the model lets every run suspend there, which
\* adds interleavings and removes none.
resume_session ==
    /\ HasIdleRun
    /\ status' = update_session_status("active")
    /\ pc' = [pc EXCEPT ![NextRun] = "queued"]
    /\ mode' = [mode EXCEPT ![NextRun] = "background"]
    /\ UNCHANGED <<published, registries, cancel_req, outcome, summary_tasks, browser, rwait, pumpvars, cancelvars, wsvars, envvars, compvars>>

\* POST /sessions/{id}/pause: status := paused, nothing else.
pause_session ==
    /\ status' = update_session_status("paused")
    /\ UNCHANGED <<published, registries, runvars, pumpvars, cancelvars, wsvars, envvars, compvars>>

\* start_agent_task(session_id, task, ...): run_agent_task wrapped in a task
\* that is stored in active_tasks (overwriting an earlier entry).
start_agent_task ==
    /\ HasIdleRun
    /\ pc' = [pc EXCEPT ![NextRun] = "queued"]
    /\ mode' = [mode EXCEPT ![NextRun] = "managed"]
    /\ active_tasks' = Put(active_tasks, sid, NextRun)
    /\ UNCHANGED <<status, published, running_agents, running_browsers, stop_flags,
                   streaming_tasks, cancel_req, outcome, summary_tasks,
                   browser, rwait, pumpvars, cancelvars, wsvars, envvars, compvars>>

\* ------------------------------------------------------------ Frame Pump
\* start_streaming(session_id, browser): a pump task is created only when the
\* session has no entry in streaming_tasks.
start_streaming(r) ==
    IF sid \notin DOMAIN streaming_tasks
    THEN /\ streaming_tasks' = Put(streaming_tasks, sid, r)
         /\ pump' = [pump EXCEPT ![r] = "created"]
         /\ last_pump' = r
         /\ streaming_stopped' = FALSE
    ELSE UNCHANGED <<streaming_tasks, pump, last_pump, streaming_stopped>>

\* stop_streaming(session_id), up to its `await task`: the entry is popped and
\* the task cancelled.  The value is the task to await (0: no entry).
stop_streaming_task == IF sid \in DOMAIN streaming_tasks THEN streaming_tasks[sid] ELSE 0
stop_streaming_pop == Del(streaming_tasks, sid)
stop_streaming_cancel ==
    IF sid \in DOMAIN streaming_tasks /\ pump[streaming_tasks[sid]] # "done"
    THEN pump_cancel \cup {streaming_tasks[sid]}
    ELSE pump_cancel

\* `await task` in stop_streaming is over: the awaited pump task has finished.
pump_awaited(p) == IF p = 0 THEN TRUE ELSE pump[p] = "done"

\* stop_streaming returns after awaiting pump p: from here on the session's
\* stream is stopped, unless a pump was created after p.
stop_streaming_returned(p) == streaming_stopped \/ (p # 0 /\ p = last_pump)

\* ------------------------------------------------------- run_agent_task
\* The agent and the browser are stored for intervention/stop capability.
register_agent(r) == Put(running_agents, sid, r)
register_browser(r) == Put(running_browsers, sid, r)

Register(r) ==
    /\ running_agents' = register_agent(r)
    /\ running_browsers' = register_browser(r)
    /\ browser' = [browser EXCEPT ![r] = "open"]

\* action_cache.get_cached_plan(task, current_url): on a hit the plan is
\* replayed through the CDP dispatcher; replay_cached_plan returns False at
\* once when the run has no CDP client (direct mode, or no page target found,
\* or the connection failed), and the Agent loop follows.
CacheCheck(r) ==
    \E client \in (IF browser_mode = "container" THEN BOOLEAN ELSE {FALSE}) :
        pc' = [pc EXCEPT ![r] = IF cache /\ client THEN "replay" ELSE "agent"]

\* From the registration to the next suspension: owl_vision.initialize() is
\* awaited between the registration and start_streaming (when the run has an
\* agent_config that does not disable OWL Vision).
AfterRegister(r) == pc' = [pc EXCEPT ![r] = "registered"]

\* The finally block up to the `await task` of stop_streaming: the summary
\* task is created, the pump entry popped and the pump cancelled.
EnterFinally(r) ==
    /\ summary_tasks' = summary_tasks \cup {r}
    /\ streaming_tasks' = stop_streaming_pop
    /\ pump_cancel' = stop_streaming_cancel
    /\ rwait' = [rwait EXCEPT ![r] = stop_streaming_task]
    /\ pc' = [pc EXCEPT ![r] = "await_pump"]

\* except Exception: status failed with the message, one error event.  (how:
\* what raised, "connect" for wait_for_cdp, "agent" for agent.run.)
RunFailed(r, how) ==
    /\ status' = update_session_status("failed")
    /\ published' = notify_session("error")
    /\ outcome' = [outcome EXCEPT ![r] = how]
    /\ EnterFinally(r)

\* The background task starts: session_start is published, the LLM client is
\* built.  container mode waits for the CDP endpoint; direct mode creates the
\* browser and the Agent without suspending.
run_begin(r) ==
    /\ pc[r] = "queued"
    /\ r \notin cancel_req
    /\ IF browser_mode = "container"
       THEN /\ pc' = [pc EXCEPT ![r] = "init"]
            /\ UNCHANGED <<running_agents, running_browsers, streaming_tasks,
                           browser, pump, last_pump, streaming_stopped>>
       ELSE /\ Register(r)
            /\ AfterRegister(r)
            /\ UNCHANGED <<streaming_tasks, pump, last_pump, streaming_stopped>>
    /\ UNCHANGED <<status, published, stop_flags, active_tasks, mode, cancel_req,
                   outcome, summary_tasks, rwait, pump_cancel,
                   screencast_on, frame_count, handlers, frames_emitted,
                   stream_events, cancelvars, wsvars, envvars, compvars>>

\* wait_for_cdp returned False: ConnectionError("Could not connect ...").
run_init_fail(r) ==
    /\ pc[r] = "init"
    /\ r \notin cancel_req
    /\ RunFailed(r, "connect_failed")
    /\ UNCHANGED <<running_agents, running_browsers, stop_flags, active_tasks, mode,
                   cancel_req, browser, pump, screencast_on,
                   frame_count, handlers, frames_emitted, stream_events,
                   last_pump, streaming_stopped, cancelvars, wsvars, envvars, compvars>>

\* The CDP endpoint answered: Browser, CDPClient and Agent are created and
\* registered.
run_init_ok(r) ==
    /\ pc[r] = "init"
    /\ r \notin cancel_req
    /\ Register(r)
    /\ AfterRegister(r)
    /\ UNCHANGED <<status, published, stop_flags, active_tasks, streaming_tasks, mode,
                   cancel_req, outcome, summary_tasks, rwait, pump, pump_cancel,
                   last_pump, streaming_stopped,
                   screencast_on, frame_count, handlers, frames_emitted,
                   stream_events, cancelvars, wsvars, envvars, compvars>>

\* After owl_vision.initialize(): start_streaming, then the cache lookup.
run_start_streaming(r) ==
    /\ pc[r] = "registered"
    /\ r \notin cancel_req
    /\ start_streaming(r)
    /\ CacheCheck(r)
    /\ UNCHANGED <<status, published, running_agents, running_browsers, stop_flags,
                   active_tasks, mode, cancel_req, outcome, summary_tasks, browser, rwait, pump_cancel, screencast_on,
                   frame_count, handlers, frames_emitted, stream_events, cancelvars,
                   wsvars, envvars, compvars>>

\* Every cached action was dispatched: status completed, session_complete,
\* return (the finally block follows).
replay_ok(r) ==
    /\ pc[r] = "replay"
    /\ r \notin cancel_req
    /\ status' = update_session_status("completed")
    /\ published' = notify_session("session_complete")
    /\ outcome' = [outcome EXCEPT ![r] = "replayed"]
    /\ EnterFinally(r)
    /\ UNCHANGED <<running_agents, running_browsers, stop_flags, active_tasks, mode,
                   cancel_req, browser, pump, screencast_on,
                   frame_count, handlers, frames_emitted, stream_events,
                   last_pump, streaming_stopped, cancelvars, wsvars, envvars, compvars>>

\* A dispatched action raised: replay_cached_plan returns False, the Agent
\* loop follows.
replay_fail(r) ==
    /\ pc[r] = "replay"
    /\ r \notin cancel_req
    /\ pc' = [pc EXCEPT ![r] = "agent"]
    /\ UNCHANGED <<status, published, registries, mode, cancel_req, outcome,
                   summary_tasks, browser, rwait, pumpvars,
                   cancelvars, wsvars, envvars, compvars>>

\* One Agent step ends and on_step_end runs: the stop flag is read.  If it is set CancelledError is raised: it is no
\* Exception, so neither on_step_end nor run_agent_task catches it, no status
\* is written and no event published; the finally block runs.
agent_step(r) ==
    /\ pc[r] = "agent"
    /\ r \notin cancel_req
    /\ IF should_stop
       THEN /\ outcome' = [outcome EXCEPT ![r] = "cancelled"]
            /\ EnterFinally(r)
       ELSE UNCHANGED <<outcome, summary_tasks, streaming_tasks, pump_cancel, rwait, pc>>
    /\ UNCHANGED <<status, published, running_agents, running_browsers, stop_flags,
                   active_tasks, mode, cancel_req, browser, pump,
                   screencast_on, frame_count, handlers, frames_emitted,
                   stream_events, last_pump, streaming_stopped, cancelvars, wsvars, envvars, compvars>>

\* agent.run returned: status completed; the plan is cached when replayable
\* actions were extracted from the history; session_complete is published.
agent_complete(r) ==
    /\ pc[r] = "agent"
    /\ r \notin cancel_req
    /\ status' = update_session_status("completed")
    /\ \E replayable \in BOOLEAN : cache' = (cache \/ replayable)
    /\ published' = notify_session("session_complete")
    /\ outcome' = [outcome EXCEPT ![r] = "completed"]
    /\ EnterFinally(r)
    /\ UNCHANGED <<running_agents, running_browsers, stop_flags, active_tasks, mode,
                   cancel_req, browser, pump, screencast_on,
                   frame_count, handlers, frames_emitted, stream_events,
                   last_pump, streaming_stopped, cancelvars, wsvars, browser_mode, compvars>>

\* agent.run raised an Exception.
agent_fail(r) ==
    /\ pc[r] = "agent"
    /\ r \notin cancel_req
    /\ RunFailed(r, "agent_failed")
    /\ UNCHANGED <<running_agents, running_browsers, stop_flags, active_tasks, mode,
                   cancel_req, browser, pump, screencast_on,
                   frame_count, handlers, frames_emitted, stream_events,
                   last_pump, streaming_stopped, cancelvars, wsvars, envvars, compvars>>

\* finally, after stop_streaming: the registry entries of the session are
\* removed; the browser popped from running_browsers (else the run's own
\* browser) is closed and the CDP client disconnected.  For a managed run the
\* wrapper's finally then pops the session's active_tasks entry.
cleanup_agents == Del(running_agents, sid)
cleanup_flags == Del(stop_flags, sid)
cleanup_browsers == Del(running_browsers, sid)
browser_to_close(r) ==
    IF sid \in DOMAIN running_browsers THEN running_browsers[sid]
    ELSE IF browser[r] # "none" THEN r ELSE 0
wrapper_pop(r) == IF mode[r] = "managed" THEN Del(active_tasks, sid) ELSE active_tasks

Cleanup(r) ==
    /\ running_agents' = cleanup_agents
    /\ stop_flags' = cleanup_flags
    /\ running_browsers' = cleanup_browsers
    /\ browser' = IF browser_to_close(r) # 0
                  THEN [browser EXCEPT ![browser_to_close(r)] = "closed"]
                  ELSE browser
    /\ active_tasks' = wrapper_pop(r)
    /\ streaming_stopped' = stop_streaming_returned(rwait[r])
    /\ rwait' = [rwait EXCEPT ![r] = 0]
    /\ pc' = [pc EXCEPT ![r] = "done"]

run_cleanup(r) ==
    /\ pc[r] = "await_pump"
    /\ r \notin cancel_req
    /\ pump_awaited(rwait[r])
    /\ Cleanup(r)
    /\ UNCHANGED <<status, published, streaming_tasks, mode, cancel_req,
                   outcome, summary_tasks, pump, pump_cancel, last_pump,
                   screencast_on, frame_count, handlers, frames_emitted,
                   stream_events, cancelvars, wsvars, envvars, compvars>>

\* task.cancel() of a managed run takes effect at the await the run is
\* suspended on.  Before its first step the coroutine never runs at all; in
\* the try block the finally block runs with no status written; at the
\* `await task` of stop_streaming the CancelledError is swallowed and the
\* cleanup goes on.
run_cancelled(r) ==
    /\ r \in cancel_req
    /\ pc[r] \notin {"idle", "done"}
    /\ cancel_req' = cancel_req \ {r}
    /\ \/ /\ pc[r] = "queued"
          /\ pc' = [pc EXCEPT ![r] = "done"]
          /\ outcome' = [outcome EXCEPT ![r] = "cancelled"]
          /\ UNCHANGED <<registries, summary_tasks, browser, rwait, pump_cancel,
                         last_pump, streaming_stopped>>
       \/ /\ pc[r] \in {"init", "registered", "replay", "agent"}
          /\ outcome' = [outcome EXCEPT ![r] = "cancelled"]
          /\ EnterFinally(r)
          /\ UNCHANGED <<running_agents, running_browsers, stop_flags, active_tasks,
                         browser, last_pump, streaming_stopped>>
       \/ /\ pc[r] = "await_pump"
          /\ Cleanup(r)
          /\ UNCHANGED <<streaming_tasks, outcome, summary_tasks, pump_cancel, last_pump>>
    /\ UNCHANGED <<status, published, mode, pump, screencast_on,
                   frame_count, handlers, frames_emitted, stream_events, cancelvars,
                   wsvars, envvars, compvars>>

\* summary_service.generate_and_save_summary, created by the finally block of
\* every run: when the LLM answers with parseable JSON the title and summary
\* are saved through update_session_status(status="completed"); any failure
\* is logged and nothing is written.
summary_status == update_session_status("completed")

generate_and_save_summary(r) ==
    /\ r \in summary_tasks
    /\ summary_tasks' = summary_tasks \ {r}
    /\ \/ status' = summary_status
       \/ status' = status
    /\ UNCHANGED <<published, registries, pc, mode, cancel_req, outcome, browser, rwait, pumpvars, cancelvars, wsvars, envvars, compvars>>

\* --------------------------------------------- stream_cdp_screencast task
\* The loop condition of both pump loops.
pump_loop_condition == ~should_stop /\ sid \in DOMAIN running_browsers

\* The pump task's first run: no active page -> return; the CDP session or
\* Page.startScreencast raises -> stream_screenshots_fallback; otherwise the
\* Page.screencastFrame listener is registered and the screencast started.
pump_run(p) ==
    /\ pump[p] = "created"
    /\ p \notin pump_cancel
    /\ \/ /\ pump' = [pump EXCEPT ![p] = "done"]
          /\ UNCHANGED screencast_on
       \/ /\ pump' = [pump EXCEPT ![p] = "fallback"]
          /\ UNCHANGED screencast_on
       \/ /\ browser[p] = "open"
          /\ pump' = [pump EXCEPT ![p] = "screencast"]
          /\ screencast_on' = screencast_on \cup {p}
    /\ UNCHANGED <<status, published, registries, runvars, pump_cancel, frame_count,
                   handlers, frames_emitted, stream_events, last_pump, streaming_stopped,
                   cancelvars, wsvars, envvars, compvars>>

\* The idle loop ends (stop flag, session left running_browsers, browser
\* disconnected): Page.stopScreencast is sent and the task returns.
pump_loop_exit(p) ==
    /\ pump[p] = "screencast"
    /\ p \notin pump_cancel
    /\ ~(pump_loop_condition /\ browser[p] = "open")
    /\ pump' = [pump EXCEPT ![p] = "done"]
    /\ screencast_on' = screencast_on \ {p}
    /\ UNCHANGED <<status, published, registries, runvars, pump_cancel, frame_count,
                   handlers, frames_emitted, stream_events, last_pump, streaming_stopped,
                   cancelvars, wsvars, envvars, compvars>>

\* task.cancel() from stop_streaming: CancelledError is raised at the await
\* the pump is suspended on (the 0.5 s sleep).  It is no Exception, so the
\* task ends there: the statements after the loop (Page.stopScreencast) are
\* not reached, and the frame listener stays registered.
pump_cancelled(p) ==
    /\ p \in pump_cancel
    /\ pump[p] \in {"created", "screencast", "fallback"}
    /\ pump' = [pump EXCEPT ![p] = "done"]
    /\ pump_cancel' = pump_cancel \ {p}
    /\ UNCHANGED <<status, published, registries, runvars, screencast_on, frame_count,
                   handlers, frames_emitted, stream_events, last_pump, streaming_stopped,
                   cancelvars, wsvars, envvars, compvars>>

\* The browser emits Page.screencastFrame: the listener creates a task for
\* handle_frame(params).
frame_arrives(p) ==
    /\ p \in screencast_on
    /\ browser[p] = "open"
    /\ frames_emitted < MaxFrames
    /\ frames_emitted' = frames_emitted + 1
    /\ handlers' = [handlers EXCEPT ![p] = @ + 1]
    /\ UNCHANGED <<status, published, registries, runvars, pump, pump_cancel,
                   screencast_on, frame_count, stream_events, last_pump, streaming_stopped,
                   cancelvars, wsvars, envvars, compvars>>

\* handle_frame: frame_count += 1, screenshot_stream published with
\* frameId = frame_count (the ack follows).
screencast_payload(n) == [format |-> "jpeg", frameId |-> n]

handle_frame(p) ==
    /\ handlers[p] > 0
    /\ handlers' = [handlers EXCEPT ![p] = @ - 1]
    /\ frame_count' = [frame_count EXCEPT ![p] = @ + 1]
    /\ stream_events' = Append(stream_events, screencast_payload(frame_count[p] + 1))
    /\ UNCHANGED <<status, published, registries, runvars, pump, pump_cancel,
                   screencast_on, frames_emitted, last_pump, streaming_stopped, cancelvars,
                   wsvars, envvars, compvars>>

\* stream_screenshots_fallback, one iteration: a JPEG screenshot is taken and
\* published as screenshot_stream {sessionId, screenshot, format} when its
\* hash differs from the last one.
fallback_payload == [format |-> "jpeg"]

fallback_poll(p) ==
    /\ pump[p] = "fallback"
    /\ p \notin pump_cancel
    /\ pump_loop_condition
    /\ browser[p] = "open"
    /\ frames_emitted < MaxFrames
    /\ frames_emitted' = frames_emitted + 1
    /\ \/ stream_events' = Append(stream_events, fallback_payload)
       \/ stream_events' = stream_events
    /\ UNCHANGED <<status, published, registries, runvars, pump, pump_cancel,
                   screencast_on, frame_count, handlers, last_pump, streaming_stopped,
                   cancelvars, wsvars, envvars, compvars>>

\* The fallback loop ends: loop condition false, browser gone, or too many
\* consecutive failures.
fallback_exit(p) ==
    /\ pump[p] = "fallback"
    /\ p \notin pump_cancel
    /\ pump' = [pump EXCEPT ![p] = "done"]
    /\ UNCHANGED <<status, published, registries, runvars, pump_cancel, screencast_on,
                   frame_count, handlers, frames_emitted, stream_events,
                   last_pump, streaming_stopped, cancelvars, wsvars, envvars, compvars>>

\* ------------------------------------------ cancel_session / stop_agent_task
\* POST /sessions/{id}/cancel -> stop_agent_task: the stop flag is set and
\* stop_streaming pops and cancels the pump, then awaits it.
set_stop_flag == Put(stop_flags, sid, TRUE)
AgentLoopRunning == \E r \in Runs : pc[r] = "agent"

cancel_begin(c) ==
    /\ cpc[c] = "idle"
    /\ c = NextCancel
    /\ stop_flags' = set_stop_flag
    /\ streaming_tasks' = stop_streaming_pop
    /\ pump_cancel' = stop_streaming_cancel
    /\ cwait' = [cwait EXCEPT ![c] = stop_streaming_task]
    /\ cpc' = [cpc EXCEPT ![c] = "await_pump"]
    /\ cancel_in_loop' = (cancel_in_loop \/ AgentLoopRunning)
    /\ UNCHANGED <<status, published, running_agents, running_browsers, active_tasks,
                   runvars, pump, screencast_on, frame_count, handlers,
                   frames_emitted, stream_events, last_pump, streaming_stopped, wsvars, envvars, compvars>>

\* running_browsers.get(session_id): the browser stop_agent_task closes (the
\* entry stays in the dict).
stop_browser == IF sid \in DOMAIN running_browsers THEN running_browsers[sid] ELSE 0
CloseStopBrowser ==
    browser' = IF stop_browser # 0 THEN [browser EXCEPT ![stop_browser] = "closed"]
               ELSE browser

\* After stop_streaming: the managed task of the session, if active_tasks has
\* one, is cancelled and awaited; otherwise browser.close() is awaited.
cancel_after_streaming(c) ==
    /\ cpc[c] = "await_pump"
    /\ pump_awaited(cwait[c])
    /\ streaming_stopped' = stop_streaming_returned(cwait[c])
    /\ IF sid \in DOMAIN active_tasks
       THEN /\ cancel_req' = IF pc[active_tasks[sid]] = "done" THEN cancel_req
                             ELSE cancel_req \cup {active_tasks[sid]}
            /\ cwait' = [cwait EXCEPT ![c] = active_tasks[sid]]
            /\ cpc' = [cpc EXCEPT ![c] = "await_task"]
            /\ UNCHANGED browser
       ELSE /\ CloseStopBrowser
            /\ cwait' = [cwait EXCEPT ![c] = 0]
            /\ cpc' = [cpc EXCEPT ![c] = "closing"]
            /\ UNCHANGED cancel_req
    /\ UNCHANGED <<status, published, registries, pc, mode, outcome, summary_tasks,
                   rwait, pump, pump_cancel, screencast_on, frame_count, handlers,
                   frames_emitted, stream_events, last_pump, cancel_in_loop, wsvars,
                   envvars, compvars>>

\* The awaited managed task has finished: active_tasks.pop, then
\* browser.close() is awaited.
cancel_task_done(c) ==
    /\ cpc[c] = "await_task"
    /\ pc[cwait[c]] = "done"
    /\ active_tasks' = Del(active_tasks, sid)
    /\ CloseStopBrowser
    /\ cwait' = [cwait EXCEPT ![c] = 0]
    /\ cpc' = [cpc EXCEPT ![c] = "closing"]
    /\ UNCHANGED <<status, published, running_agents, running_browsers, stop_flags,
                   streaming_tasks, pc, mode, cancel_req, outcome, summary_tasks, rwait, pumpvars, cancel_in_loop, wsvars, envvars, compvars>>

\* browser.close() returned: the agent entry and the stop flag are deleted,
\* stop_agent_task returns and cancel_session writes status cancelled.
stop_cleanup_agents == Del(running_agents, sid)
\* (Sensitivity of C3: a stop_agent_task that leaves the flag in place.)
stop_cleanup_flags_kept == stop_flags
stop_cleanup_flags == Del(stop_flags, sid)

cancel_finish(c) ==
    /\ cpc[c] = "closing"
    /\ running_agents' = stop_cleanup_agents
    /\ stop_flags' = stop_cleanup_flags
    /\ status' = update_session_status("cancelled")
    /\ cpc' = [cpc EXCEPT ![c] = "done"]
    /\ UNCHANGED <<published, running_browsers, streaming_tasks, active_tasks, runvars,
                   pumpvars, cwait, cancel_in_loop, wsvars, envvars, compvars>>

\* ----------------------------- WebSocket start_stream / stop_stream handlers
\* cdp_streamer.start_stream(session_id): returns when the session has an
\* entry in active_sessions or CDP_URL is not configured; otherwise it awaits
\* get_cdp_ws_url, and only then creates the _stream_loop task and stores it.
ws_start_stream(k) ==
    /\ sl[k] = "idle"
    /\ \A j \in Streams : j < k => sl[j] # "idle"
    /\ sid \notin DOMAIN active_sessions
    /\ browser_mode = "container"
    /\ sl' = [sl EXCEPT ![k] = "connecting"]
    /\ UNCHANGED <<status, published, registries, runvars, pumpvars, cancelvars,
                   active_sessions, envvars, compvars>>

ws_start_stream_task(k) ==
    /\ sl[k] = "connecting"
    /\ \/ /\ sl' = [sl EXCEPT ![k] = "running"]
          /\ active_sessions' = Put(active_sessions, sid, k)
       \/ /\ sl' = [sl EXCEPT ![k] = "done"]
          /\ UNCHANGED active_sessions
    /\ UNCHANGED <<status, published, registries, runvars, pumpvars, cancelvars,
                   envvars, compvars>>

\* cdp_streamer.stop_stream(session_id): the stored task is cancelled and the
\* entry deleted; the task is not awaited.
ws_stop_stream ==
    /\ sid \in DOMAIN active_sessions
    /\ sl' = [sl EXCEPT ![active_sessions[sid]] = IF @ = "running" THEN "cancelled" ELSE @]
    /\ active_sessions' = Del(active_sessions, sid)
    /\ UNCHANGED <<status, published, registries, runvars, pumpvars, cancelvars,
                   envvars, compvars>>

\* _stream_loop ends (cancelled, or the CDP socket closed or failed): its
\* finally block deletes the session's entry of active_sessions, whichever
\* task it names.
stream_loop_exit(k) ==
    /\ sl[k] \in {"running", "cancelled"}
    /\ sl' = [sl EXCEPT ![k] = "done"]
    /\ active_sessions' = Del(active_sessions, sid)
    /\ UNCHANGED <<status, published, registries, runvars, pumpvars, cancelvars,
                   envvars, compvars>>

\* --------------------------------------------------------- specifications
\* The steps of one run_agent_task invocation.
RunStep(r) ==
    \/ run_begin(r)
    \/ run_init_fail(r)
    \/ run_init_ok(r)
    \/ run_start_streaming(r)
    \/ replay_ok(r)
    \/ replay_fail(r)
    \/ agent_step(r)
    \/ agent_complete(r)
    \/ agent_fail(r)
    \/ run_cleanup(r)

\* The steps of one pump task, frames apart.
PumpStep(p) ==
    \/ pump_run(p)
    \/ pump_loop_exit(p)
    \/ pump_cancelled(p)
    \/ fallback_exit(p)

\* Frames: the browser emits one, a handler publishes one, the fallback polls.
FrameStep(p) ==
    \/ frame_arrives(p)
    \/ handle_frame(p)
    \/ fallback_poll(p)

\* Spec: the session's life cycle as the HTTP endpoints drive it.  The
\* browser emits no frame and no WebSocket client asks for a stream.
Next ==
    \/ start_session
    \/ resume_session
    \/ pause_session
    \/ \E r \in Runs : RunStep(r) \/ PumpStep(r) \/ generate_and_save_summary(r)
    \/ \E c \in Cancels :
          \/ cancel_begin(c)
          \/ cancel_after_streaming(c)
          \/ cancel_finish(c)

Spec == Init /\ [][Next]_vars

\* SpecStream: the Frame Pump.  Runs are started by the start endpoint, one
\* after the other, and stopped by cancel; frames flow; WebSocket clients send
\* start_stream and stop_stream.  (No pause or resume request is made and the
\* summary LLM call does not return.)
NoRunInProgress == \A r \in Runs : pc[r] \in {"idle", "done"}

NextStream ==
    \/ NoRunInProgress /\ start_session
    \/ \E r \in Runs : RunStep(r) \/ PumpStep(r) \/ FrameStep(r)
    \/ \E c \in Cancels :
          \/ cancel_begin(c)
          \/ cancel_after_streaming(c)
          \/ cancel_finish(c)
    \/ \E k \in Streams :
          \/ ws_start_stream(k)
          \/ ws_start_stream_task(k)
          \/ stream_loop_exit(k)
    \/ ws_stop_stream

SpecStream == Init /\ [][NextStream]_vars

\* SpecManaged: runs launched through start_agent_task, whose task
\* stop_agent_task cancels and awaits.
NextManaged ==
    \/ start_agent_task
    \/ \E r \in Runs : RunStep(r) \/ run_cancelled(r) \/ PumpStep(r)
    \/ \E c \in Cancels :
          \/ cancel_begin(c)
          \/ cancel_after_streaming(c)
          \/ cancel_task_done(c)
          \/ cancel_finish(c)

SpecManaged == Init /\ [][NextManaged]_vars

\* ------------------------------------- handle_frame, frame by frame (SpecAck)
MaxAckFrames == 3
CdpSessionIds == {"cdp1", "cdp2"}

\* Page.screencastFrame arrives with params {data, sessionId}: the listener
\* creates a task for handle_frame(params).
ack_frame_arrives ==
    /\ Len(ack_rx) < MaxAckFrames
    /\ \E s \in CdpSessionIds : ack_rx' = Append(ack_rx, s)
    /\ ack_tasks' = Append(ack_tasks, Len(ack_rx) + 1)
    /\ UNCHANGED <<enginevars, tlvars, rpvars, tmvars, sbvars, ntvars, cnvars, mkvars, ivvars, rnvars, cachevars, keyvars, dspvars, evvars, cdpvars, fbvars, ack_count, ack_pub, ack_sent, ack_done>>

\* The ack handle_frame sends for frame f.
screencastFrameAck(f) == [frame |-> f, sessionId |-> ack_rx[f]]

\* The oldest handle_frame task runs (tasks start in creation order):
\* frame_count += 1; inside one try block screenshot_stream is published and then
\* Page.screencastFrameAck is sent; an Exception raised by the publish is caught
\* after the block ("Frame send error"), so the ack statement is skipped.
ack_handle_frame ==
    /\ ack_tasks # << >>
    /\ ack_count' = ack_count + 1
    /\ \E publish_ok \in BOOLEAN :
          IF publish_ok
          THEN /\ ack_pub' = Append(ack_pub, ack_count + 1)
               /\ ack_sent' = Append(ack_sent, screencastFrameAck(Head(ack_tasks)))
          ELSE UNCHANGED <<ack_pub, ack_sent>>
    /\ ack_done' = ack_done \cup {Head(ack_tasks)}
    /\ ack_tasks' = Tail(ack_tasks)
    /\ UNCHANGED <<enginevars, tlvars, rpvars, tmvars, sbvars, ntvars, cnvars, mkvars, ivvars, rnvars, cachevars, keyvars, dspvars, evvars, cdpvars, fbvars, ack_rx>>

NextAck ==
    \/ ack_frame_arrives
    \/ ack_handle_frame

SpecAck == Init /\ [][NextAck]_vars

\* ---------------------- stream_screenshots_fallback, by iteration (SpecFallback)
MaxPolls == 12
max_failures == 10
ScreenshotHashes == {"h1", "h2"}

\* The counter after one more failure, and whether the loop breaks on it
\* (`if consecutive_failures >= max_failures: break`).
count_failure == fb_failures + 1
breaks_on_failure == count_failure >= max_failures

\* One iteration: what the body does with the counter, the last hash and the
\* loop, for each thing that can happen in it.
\*   no_page:   get_active_page returned None: the counter is incremented in the
\*              else branch, which has no test against max_failures.
\*   raised:    page.screenshot (or the publish) raised: counter incremented and
\*              tested in the except branch.
\*   captured:  page.screenshot returned bytes of hash h: only when h differs
\*              from the last hash is the frame published, the hash stored and
\*              the counter reset.
fb_no_page ==
    /\ fb_exit = "running" /\ fb_polls < MaxPolls
    /\ fb_polls' = fb_polls + 1
    /\ fb_failures' = count_failure
    /\ fb_streak' = fb_streak + 1
    /\ UNCHANGED <<enginevars, tlvars, rpvars, tmvars, sbvars, ntvars, cnvars, mkvars, ivvars, rnvars, cachevars, keyvars, dspvars, evvars, cdpvars, ackvars, fb_last, fb_exit>>

fb_raised ==
    /\ fb_exit = "running" /\ fb_polls < MaxPolls
    /\ fb_polls' = fb_polls + 1
    /\ fb_failures' = count_failure
    /\ fb_streak' = fb_streak + 1
    /\ fb_exit' = IF breaks_on_failure THEN "failures" ELSE "running"
    /\ UNCHANGED <<enginevars, tlvars, rpvars, tmvars, sbvars, ntvars, cnvars, mkvars, ivvars, rnvars, cachevars, keyvars, dspvars, evvars, cdpvars, ackvars, fb_last>>

fb_captured ==
    /\ fb_exit = "running" /\ fb_polls < MaxPolls
    /\ fb_polls' = fb_polls + 1
    /\ fb_streak' = 0
    /\ \E h \in ScreenshotHashes :
          IF h # fb_last
          THEN fb_last' = h /\ fb_failures' = 0
          ELSE UNCHANGED <<fb_last, fb_failures>>
    /\ UNCHANGED <<enginevars, tlvars, rpvars, tmvars, sbvars, ntvars, cnvars, mkvars, ivvars, rnvars, cachevars, keyvars, dspvars, evvars, cdpvars, ackvars, fb_exit>>

\* The loop ends for another reason: stop flag, session left running_browsers,
\* browser disconnected.
fb_stopped ==
    /\ fb_exit = "running"
    /\ fb_exit' = "stopped"
    /\ UNCHANGED <<enginevars, tlvars, rpvars, tmvars, sbvars, ntvars, cnvars, mkvars, ivvars, rnvars, cachevars, keyvars, dspvars, evvars, cdpvars, ackvars, fb_failures, fb_last, fb_streak, fb_polls>>

NextFallback ==
    \/ fb_no_page
    \/ fb_raised
    \/ fb_captured
    \/ fb_stopped

SpecFallback == Init /\ [][NextFallback]_vars

\* ------------------------------------------------------------- CDP client
\* CDPClient (cdp/client.py): one websocket, numbered commands, a reader task.
\* Up to MaxSends calls of send run concurrently as asyncio tasks; a call is
\* suspended at "await self.connect()", at "await self.ws.send_str(...)" and at
\* "await asyncio.wait_for(future, timeout=10.0)".  Time is abstracted: the
\* timeout of a waiting call may fire at any moment.

cdpghost == <<cdp_disconnected, send_closed, send_cut, resolved_by>>

\* connect() past its early return: a new websocket and a new reader task.
ws_connected ==
    /\ ws' = "open"
    /\ listen_task' = "running"

\* Lines 50-60 of send, which run without suspension: take the id, advance the
\* counter, create the future and store it under the id.
\* (Sensitivity of C14: a send that does not advance the counter.)
next_command_id_same == command_id
next_command_id == command_id + 1
take_command_id(c) ==
    /\ send_cid' = [send_cid EXCEPT ![c] = command_id]
    /\ command_id' = next_command_id
    /\ future' = [future EXCEPT ![c] = "pending"]
    /\ pending_commands' = Put(pending_commands, command_id, c)
    /\ send_pc' = [send_pc EXCEPT ![c] = "writing"]

\* A call of send ends with outcome o.
send_returns(c, o) ==
    /\ send_pc' = [send_pc EXCEPT ![c] = "done"]
    /\ send_outcome' = [send_outcome EXCEPT ![c] = o]

\* connect() called by the user of the client.
cdp_connect ==
    /\ ws # "open"
    /\ ws_connected
    /\ cdp_disconnected' = FALSE
    /\ UNCHANGED <<enginevars, tlvars, rpvars, tmvars, sbvars, ntvars, cnvars, mkvars, ivvars, rnvars, cachevars, keyvars, dspvars, evvars, ackvars, fbvars, command_id, pending_commands, send_pc,
                   send_cid, send_outcome, future, wire, replied, send_closed,
                   send_cut, resolved_by>>

\* disconnect(): cancels the reader task, closes the websocket and the http
\* session.  pending_commands and the futures in it are not touched.
cdp_disconnect ==
    /\ ~ cdp_disconnected
    /\ listen_task' = IF listen_task = "running" THEN "cancelled" ELSE listen_task
    /\ ws' = IF ws = "none" THEN "none" ELSE "closed"
    /\ cdp_disconnected' = TRUE
    /\ send_cut' = [c \in Sends |-> send_cut[c] \/ send_pc[c] = "waiting"]
    /\ UNCHANGED <<enginevars, tlvars, rpvars, tmvars, sbvars, ntvars, cnvars, mkvars, ivvars, rnvars, cachevars, keyvars, dspvars, evvars, ackvars, fbvars, command_id, pending_commands, send_pc,
                   send_cid, send_outcome, future, wire, replied, send_closed,
                   resolved_by>>

\* The peer or the network closes the connection: the reader's "async for"
\* ends and the task returns.
cdp_connection_lost ==
    /\ ws = "open"
    /\ ws' = "closed"
    /\ listen_task' = IF listen_task = "running" THEN "ended" ELSE listen_task
    /\ UNCHANGED <<enginevars, tlvars, rpvars, tmvars, sbvars, ntvars, cnvars, mkvars, ivvars, rnvars, cachevars, keyvars, dspvars, evvars, ackvars, fbvars, command_id, pending_commands, send_pc,
                   send_cid, send_outcome, future, wire, replied, cdpghost>>

\* send begins (calls begin in index order): with no open websocket it awaits
\* connect(); otherwise it takes its id and reaches the write.
cdp_send_begin(c) ==
    /\ send_pc[c] = "idle"
    /\ \A d \in Sends : d < c => send_pc[d] # "idle"
    /\ send_closed' = [send_closed EXCEPT ![c] = cdp_disconnected]
    /\ IF ws # "open"
         THEN /\ send_pc' = [send_pc EXCEPT ![c] = "connecting"]
              /\ UNCHANGED <<command_id, pending_commands, send_cid, future>>
         ELSE take_command_id(c)
    /\ UNCHANGED <<enginevars, tlvars, rpvars, tmvars, sbvars, ntvars, cnvars, mkvars, ivvars, rnvars, cachevars, keyvars, dspvars, evvars, ackvars, fbvars, ws, listen_task, send_outcome, wire,
                   replied, cdp_disconnected, send_cut, resolved_by>>

\* The connect() awaited by send returns: send goes on to take its id.
cdp_send_connected(c) ==
    /\ send_pc[c] = "connecting"
    /\ ws_connected
    /\ take_command_id(c)
    /\ UNCHANGED <<enginevars, tlvars, rpvars, tmvars, sbvars, ntvars, cnvars, mkvars, ivvars, rnvars, cachevars, keyvars, dspvars, evvars, ackvars, fbvars, send_outcome, wire, replied, cdpghost>>

\* The connect() awaited by send raises (it logs and re-raises).
cdp_send_connect_failed(c) ==
    /\ send_pc[c] = "connecting"
    /\ send_returns(c, "connect_failed")
    /\ UNCHANGED <<enginevars, tlvars, rpvars, tmvars, sbvars, ntvars, cnvars, mkvars, ivvars, rnvars, cachevars, keyvars, dspvars, evvars, ackvars, fbvars, ws, listen_task, command_id,
                   pending_commands, send_cid, future, wire, replied, cdpghost>>

\* ws.send_str returns: the frame is on the wire and send waits for its future.
cdp_send_written(c) ==
    /\ send_pc[c] = "writing"
    /\ ws = "open"
    /\ wire' = Append(wire, send_cid[c])
    /\ send_pc' = [send_pc EXCEPT ![c] = "waiting"]
    /\ UNCHANGED <<enginevars, tlvars, rpvars, tmvars, sbvars, ntvars, cnvars, mkvars, ivvars, rnvars, cachevars, keyvars, dspvars, evvars, ackvars, fbvars, ws, listen_task, command_id,
                   pending_commands, send_cid, send_outcome, future, replied, cdpghost>>

\* ws.send_str raises: the statement is outside the try block, so the exception
\* leaves send at once; the entry stored under the id stays.
cdp_send_write_failed(c) ==
    /\ send_pc[c] = "writing"
    /\ send_returns(c, "write_failed")
    /\ UNCHANGED <<enginevars, tlvars, rpvars, tmvars, sbvars, ntvars, cnvars, mkvars, ivvars, rnvars, cachevars, keyvars, dspvars, evvars, ackvars, fbvars, ws, listen_task, command_id,
                   pending_commands, send_cid, future, wire, replied, cdpghost>>

\* wait_for times out: it cancels the future and raises TimeoutError; the
\* handler deletes the entry and raises "timed out".
cdp_send_timeout(c) ==
    /\ send_pc[c] = "waiting"
    /\ future' = [future EXCEPT ![c] = "cancelled"]
    /\ pending_commands' = Del(pending_commands, send_cid[c])
    /\ send_returns(c, "timeout")
    /\ UNCHANGED <<enginevars, tlvars, rpvars, tmvars, sbvars, ntvars, cnvars, mkvars, ivvars, rnvars, cachevars, keyvars, dspvars, evvars, ackvars, fbvars, ws, listen_task, command_id, send_cid,
                   wire, replied, cdpghost>>

\* The task that called send is cancelled while send is suspended:
\* CancelledError is not TimeoutError, so no handler of send runs; when the call
\* was in wait_for, wait_for cancels the future.
cdp_send_cancelled(c) ==
    /\ send_pc[c] \in {"connecting", "writing", "waiting"}
    /\ future' = [future EXCEPT ![c] = IF send_pc[c] = "waiting" THEN "cancelled" ELSE @]
    /\ send_returns(c, "cancelled")
    /\ UNCHANGED <<enginevars, tlvars, rpvars, tmvars, sbvars, ntvars, cnvars, mkvars, ivvars, rnvars, cachevars, keyvars, dspvars, evvars, ackvars, fbvars, ws, listen_task, command_id,
                   pending_commands, send_cid, wire, replied, cdpghost>>

\* _listen_loop reads a frame carrying "id": i, with or without "error".  When
\* i is a key of pending_commands the entry is popped and its future completed,
\* which resumes the send waiting on it.  Completing a future that was cancelled
\* raises InvalidStateError, caught by the loop's "except Exception": the reader
\* task ends.
listen_reply(i, is_error) ==
    /\ listen_task = "running" /\ ws = "open"
    /\ \E k \in 1..Len(wire) : wire[k] = i
    /\ i \notin replied
    /\ replied' = replied \cup {i}
    /\ IF i \in DOMAIN pending_commands
         THEN LET c == pending_commands[i] IN
              /\ pending_commands' = Del(pending_commands, i)
              /\ IF future[c] = "cancelled"
                   THEN /\ listen_task' = "ended"
                        /\ UNCHANGED <<future, send_pc, send_outcome, resolved_by>>
                   ELSE /\ future' = [future EXCEPT ![c] = IF is_error THEN "exception" ELSE "result"]
                        /\ listen_task' = listen_task
                        /\ IF send_pc[c] = "waiting"
                             THEN /\ send_returns(c, IF is_error THEN "remote_error" ELSE "result")
                                  /\ resolved_by' = [resolved_by EXCEPT ![c] = i]
                             ELSE UNCHANGED <<send_pc, send_outcome, resolved_by>>
         ELSE UNCHANGED <<pending_commands, future, listen_task, send_pc, send_outcome,
                          resolved_by>>
    /\ UNCHANGED <<enginevars, tlvars, rpvars, tmvars, sbvars, ntvars, cnvars, mkvars, ivvars, rnvars, cachevars, keyvars, dspvars, evvars, ackvars, fbvars, ws, command_id, send_cid, wire,
                   cdp_disconnected, send_closed, send_cut>>

NextCdp ==
    \/ cdp_connect
    \/ cdp_disconnect
    \/ cdp_connection_lost
    \/ \E c \in Sends : cdp_send_begin(c)
    \/ \E c \in Sends : cdp_send_connected(c)
    \/ \E c \in Sends : cdp_send_connect_failed(c)
    \/ \E c \in Sends : cdp_send_written(c)
    \/ \E c \in Sends : cdp_send_write_failed(c)
    \/ \E c \in Sends : cdp_send_timeout(c)
    \/ \E c \in Sends : cdp_send_cancelled(c)
    \/ \E i \in 0..MaxSends, is_error \in BOOLEAN : listen_reply(i, is_error)

SpecCdp == Init /\ [][NextCdp]_vars

\* ------------------------------------------------------------- CDP events
MaxEvents == 2
MaxListeners == 2
CdpMethods == {"Page.loadEventFired", "Page.frameNavigated"}

\* A caller asks the client to register a callback under method name m.  The
\* class defines __init__, connect, disconnect, send and _listen_loop only and
\* holds no name-to-callback table: the request raises AttributeError and the
\* client's state is as before.
cdp_register_listener ==
    /\ Len(on_calls) < MaxListeners
    /\ \E m \in CdpMethods : on_calls' = Append(on_calls, m)
    /\ UNCHANGED <<enginevars, tlvars, rpvars, tmvars, sbvars, ntvars, cnvars, mkvars, ivvars, rnvars, cachevars, keyvars, dspvars, ackvars, fbvars, cdpvars, events_rx, callbacks_run>>

\* _listen_loop reads a TEXT frame with "method" and without "id": the test
\* `"id" in data` is false and the event branch is a comment, so the iteration
\* ends without calling anything.
listen_event ==
    /\ listen_task = "running" /\ ws = "open"
    /\ Len(events_rx) < MaxEvents
    /\ \E m \in CdpMethods : events_rx' = Append(events_rx, m)
    /\ UNCHANGED <<enginevars, tlvars, rpvars, tmvars, sbvars, ntvars, cnvars, mkvars, ivvars, rnvars, cachevars, keyvars, dspvars, ackvars, fbvars, cdpvars, on_calls, callbacks_run>>

NextCdpEvents ==
    \/ cdp_connect
    \/ cdp_disconnect
    \/ cdp_connection_lost
    \/ cdp_register_listener
    \/ listen_event

SpecCdpEvents == Init /\ [][NextCdpEvents]_vars

\* ------------------------------------------------------------- CDP dispatcher
\* CDPActionDispatcher (cdp/dispatcher.py): each action is a straight sequence
\* of "await self.client.send(...)"; send returns when the reply arrived and
\* raises otherwise, and the dispatcher has no try block.
MaxClicks == 2
Coords == {10, 20}
Buttons == {"left", "middle"}
Texts == {"hello"}
Keys == {"Enter"}

btn_type(button) == IF button = "left" THEN "left" ELSE "right"

\* The action in progress is the tuple of its name and arguments:
\* <<"click", x, y, button, count>>, <<"type_text", text>>, <<"key_press", key>>.
call_kind == dsp_call[1]
call_x == dsp_call[2]
call_y == dsp_call[3]
call_button == dsp_call[4]
call_count == dsp_call[5]
call_text == dsp_call[2]
call_key == dsp_call[2]

\* A command is the tuple of the method and the values of its params, in the
\* order the dispatcher writes them.
cmd_method(cmd) == cmd[1]
cmd_type(cmd) == cmd[2]
mouseEvent(type) ==
    IF type = "mouseMoved"
      THEN <<"Input.dispatchMouseEvent", type, call_x, call_y>>
      ELSE <<"Input.dispatchMouseEvent", type, call_x, call_y, btn_type(call_button), 1>>
keyEvent(type) == <<"Input.dispatchKeyEvent", type, call_key, call_key>>
insertText == <<"Input.insertText", call_text>>

\* The command the action sends at its current statement.
dsp_command ==
    CASE dsp_pc = "move"    -> mouseEvent("mouseMoved")
      [] dsp_pc = "press"   -> mouseEvent("mousePressed")
      [] dsp_pc = "release" -> mouseEvent("mouseReleased")
      [] dsp_pc = "insert"  -> insertText
      [] dsp_pc = "down"    -> keyEvent("keyDown")
      [] dsp_pc = "up"      -> keyEvent("keyUp")

\* `for _ in range(count)`: another iteration follows the one just completed.
\* (Sensitivity of C18: a loop that never repeats.)
loop_again_never == FALSE
loop_again == dsp_i + 1 < call_count

\* The statement reached when the send at the current statement has returned.
dsp_after ==
    CASE dsp_pc = "move"    -> IF call_count > 0 THEN "press" ELSE "done"
      [] dsp_pc = "press"   -> "release"
      [] dsp_pc = "release" -> IF loop_again THEN "press" ELSE "done"
      [] dsp_pc = "insert"  -> "done"
      [] dsp_pc = "down"    -> "up"
      [] dsp_pc = "up"      -> "done"

dsp_begin(call, first) ==
    /\ dsp_pc \in {"idle", "done", "failed"}
    /\ dsp_call' = call
    /\ dsp_pc' = first
    /\ dsp_i' = 0
    /\ dsp_sent' = << >>
    /\ dsp_inflight' = FALSE
    /\ dsp_replies' = 0
    /\ UNCHANGED <<enginevars, tlvars, rpvars, tmvars, sbvars, ntvars, cnvars, mkvars, ivvars, rnvars, cachevars, keyvars, ackvars, fbvars, cdpvars, evvars>>

click ==
    \E x \in Coords, y \in Coords, button \in Buttons, count \in 0..MaxClicks :
        dsp_begin(<<"click", x, y, button, count>>, "move")
type_text == \E text \in Texts : dsp_begin(<<"type_text", text>>, "insert")
key_press == \E key \in Keys : dsp_begin(<<"key_press", key>>, "down")

\* client.send writes the command of the current statement and waits.
dsp_send ==
    /\ dsp_pc \in {"move", "press", "release", "insert", "down", "up"}
    /\ ~ dsp_inflight
    /\ dsp_sent' = Append(dsp_sent, dsp_command)
    /\ dsp_inflight' = TRUE
    /\ UNCHANGED <<enginevars, tlvars, rpvars, tmvars, sbvars, ntvars, cnvars, mkvars, ivvars, rnvars, cachevars, keyvars, ackvars, fbvars, cdpvars, evvars, dsp_call, dsp_pc, dsp_i,
                   dsp_replies>>

\* The reply arrives: send returns and the action goes on to its next statement.
dsp_reply ==
    /\ dsp_inflight
    /\ dsp_inflight' = FALSE
    /\ dsp_replies' = dsp_replies + 1
    /\ dsp_pc' = dsp_after
    /\ dsp_i' = IF dsp_pc = "release" THEN dsp_i + 1 ELSE dsp_i
    /\ UNCHANGED <<enginevars, tlvars, rpvars, tmvars, sbvars, ntvars, cnvars, mkvars, ivvars, rnvars, cachevars, keyvars, ackvars, fbvars, cdpvars, evvars, dsp_call, dsp_sent>>

\* client.send raises (connect or write failure before the command is written;
\* remote error or timeout after): the exception leaves the action.
dsp_send_raises ==
    /\ dsp_pc \in {"move", "press", "release", "insert", "down", "up"}
    /\ dsp_pc' = "failed"
    /\ dsp_inflight' = FALSE
    /\ UNCHANGED <<enginevars, tlvars, rpvars, tmvars, sbvars, ntvars, cnvars, mkvars, ivvars, rnvars, cachevars, keyvars, ackvars, fbvars, cdpvars, evvars, dsp_call, dsp_i, dsp_sent,
                   dsp_replies>>

NextDispatch ==
    \/ click
    \/ type_text
    \/ key_press
    \/ dsp_send
    \/ dsp_reply
    \/ dsp_send_raises

SpecDispatch == Init /\ [][NextDispatch]_vars

\* ------------------------------------------------------------- cache key
\* ActionCache._generate_key (cache/action_cache.py): strings are sequences of
\* characters over a small alphabet that has a cased letter, a whitespace
\* character and the separator.
MaxLen == 2
MaxKeys == 2
Chars == {"a", "A", " ", "|"}
Strings == UNION {[1..n -> Chars] : n \in 0..MaxLen}

isspace(ch) == ch = " "
RECURSIVE lstrip(_)
lstrip(s) == IF s # << >> /\ isspace(Head(s)) THEN lstrip(Tail(s)) ELSE s
RECURSIVE rstrip(_)
rstrip(s) == IF s # << >> /\ isspace(s[Len(s)]) THEN rstrip(SubSeq(s, 1, Len(s) - 1)) ELSE s
strip(s) == rstrip(lstrip(s))
lower(s) == [k \in 1..Len(s) |-> IF s[k] = "A" THEN "a" ELSE s[k]]

\* hashlib.sha256(...).hexdigest(), taken as injective: the digest stands for
\* its input and nothing else.
sha256(payload) == [digest_of |-> payload]

\* payload = f"{goal.strip().lower()}|{url.strip()}"
_generate_key(goal, url) == sha256(lower(strip(goal)) \o <<"|">> \o strip(url))

generate_key ==
    /\ Len(ck_key) < MaxKeys
    /\ \E goal \in Strings, url \in Strings :
          /\ ck_goal' = Append(ck_goal, goal)
          /\ ck_url' = Append(ck_url, url)
          /\ ck_key' = Append(ck_key, _generate_key(goal, url))
    /\ UNCHANGED <<enginevars, tlvars, rpvars, tmvars, sbvars, ntvars, cnvars, mkvars, ivvars, rnvars, cachevars, ackvars, fbvars, cdpvars, evvars, dspvars>>

NextKey == generate_key

SpecKey == Init /\ [][NextKey]_vars

\* ------------------------------------------------------------- action cache
\* ActionCache.get_cached_plan / cache_plan over DatabaseService.get_cached_plan /
\* save_cached_plan.  The table is shared by every client of the store; each
\* .execute() is one request, served atomically.  A lookup is two requests
\* (select, then update with the count it read plus one).  Requests are taken
\* to succeed.
MaxGets == 3
MaxPuts == 3
CacheGoals == {<<"a">>, <<"A", " ">>, <<"|">>}
CacheUrls == {<< >>}
Plans == {<< >>, <<"click">>, <<"click", "type_text">>, <<"type_text", "click">>}

row_actions(row) == row[1]
row_success_count(row) == row[2]

\* success_count of a row the upsert inserts (the upsert payload has no such
\* field; the lookup reads a missing value as 0).
success_count_default == 0

\* cache_plan's early return: `if not self.enabled or not success or not actions`.
\* (Sensitivity of C21: a cache_plan that also stores an empty action list.)
cache_plan_returns_early_unless_failed(actions, success) == ~ success
cache_plan_returns_early(actions, success) == ~ success \/ actions = << >>

\* upsert(data, on_conflict="cache_key"): the payload's columns replace the
\* row's, the other columns of an existing row stay.
save_cached_plan(key, actions) ==
    Put(store, key,
        <<actions, IF key \in DOMAIN store THEN row_success_count(store[key])
                                          ELSE success_count_default>>)

cache_plan ==
    /\ puts_made < MaxPuts
    /\ puts_made' = puts_made + 1
    /\ \E goal \in CacheGoals, url \in CacheUrls, actions \in Plans, success \in BOOLEAN :
          IF cache_plan_returns_early(actions, success)
            THEN UNCHANGED <<store, last_put>>
            ELSE /\ store' = save_cached_plan(_generate_key(goal, url), actions)
                 /\ last_put' = IF actions # << >>
                                  THEN Put(last_put, _generate_key(goal, url), actions)
                                  ELSE last_put
    /\ UNCHANGED <<enginevars, tlvars, rpvars, tmvars, sbvars, ntvars, cnvars, mkvars, ivvars, rnvars, ackvars, fbvars, cdpvars, evvars, dspvars, keyvars,
                   get_pc, get_key, get_read, get_ret, get_expect, gets_made>>

\* What ActionCache.get_cached_plan returns for the row db.get_cached_plan gave:
\* `plan["actions"]` when the row has a non-empty action list, else None.
plan_actions(row) ==
    IF row # None /\ row_actions(row) # << >> THEN row_actions(row) ELSE None

\* The select of db.get_cached_plan.  Without a row the lookup returns None.
get_select(c) ==
    /\ get_pc[c] \in {"idle", "done"}
    /\ gets_made < MaxGets
    /\ gets_made' = gets_made + 1
    /\ \E goal \in CacheGoals, url \in CacheUrls :
          LET key == _generate_key(goal, url) IN
          /\ get_key' = [get_key EXCEPT ![c] = key]
          /\ get_expect' = [get_expect EXCEPT ![c] =
                               IF key \in DOMAIN last_put THEN last_put[key] ELSE None]
          /\ IF key \in DOMAIN store
               THEN /\ get_read' = [get_read EXCEPT ![c] = store[key]]
                    /\ get_pc' = [get_pc EXCEPT ![c] = "hit"]
                    /\ get_ret' = [get_ret EXCEPT ![c] = None]
               ELSE /\ get_read' = [get_read EXCEPT ![c] = None]
                    /\ get_pc' = [get_pc EXCEPT ![c] = "done"]
                    /\ get_ret' = [get_ret EXCEPT ![c] = plan_actions(None)]
    /\ UNCHANGED <<enginevars, tlvars, rpvars, tmvars, sbvars, ntvars, cnvars, mkvars, ivvars, rnvars, ackvars, fbvars, cdpvars, evvars, dspvars, keyvars,
                   store, last_put, puts_made>>

\* The update of db.get_cached_plan: success_count = the count read + 1 on the
\* row that was read; then the lookup returns.
get_update(c) ==
    /\ get_pc[c] = "hit"
    /\ store' = [store EXCEPT ![get_key[c]] =
                    <<row_actions(@), row_success_count(get_read[c]) + 1>>]
    /\ get_ret' = [get_ret EXCEPT ![c] = plan_actions(get_read[c])]
    /\ get_pc' = [get_pc EXCEPT ![c] = "done"]
    /\ UNCHANGED <<enginevars, tlvars, rpvars, tmvars, sbvars, ntvars, cnvars, mkvars, ivvars, rnvars, ackvars, fbvars, cdpvars, evvars, dspvars, keyvars,
                   last_put, get_key, get_read, get_expect, gets_made, puts_made>>

NextCache ==
    \/ cache_plan
    \/ \E c \in Callers : get_select(c)
    \/ \E c \in Callers : get_update(c)

SpecCache == Init /\ [][NextCache]_vars

\* ------------------------------------------------------------- one run, in detail
\* run_agent_task from the cache lookup to the status it writes: the replay of a
\* cached plan, the steps of the Agent loop as seen by on_step_end, and the
\* writes and events at the end.  A plan is the sequence of its actions' types;
\* the cached actions are the ones the extraction at the end of a run builds
\* (click with x and y, type_text with text, key_press with key).
MaxSteps == 4
CachedPlans == {<<"click">>, <<"click", "type_text">>, <<"key_press", "click", "type_text">>}

rn_publish(name, says) == rn_events' = Append(rn_events, <<name, says>>)

\* action_cache.get_cached_plan; on a hit the run publishes session_update
\* "Instant Replay" and calls replay_cached_plan, which returns False at once
\* when there is no cdp_client.
rn_lookup ==
    /\ rn_pc = "lookup"
    /\ \E plan \in CachedPlans \cup {None}, client \in BOOLEAN :
          /\ rn_plan' = plan
          /\ rn_client' = client
          /\ IF plan # None
               THEN /\ rn_publish("session_update", "Instant Replay")
                    /\ rn_pc' = IF client THEN "replay" ELSE "agent"
               ELSE /\ rn_pc' = "agent"
                    /\ UNCHANGED rn_events
    /\ UNCHANGED <<enginevars, tlvars, rpvars, tmvars, sbvars, ntvars, cnvars, mkvars, ivvars, ackvars, fbvars, cdpvars, evvars, dspvars, keyvars, cachevars,
                   rn_i, rn_dispatched, rn_status, rn_actions_count, rn_method,
                   rn_step_count, rn_records, rn_agent_ran, rn_cache_plans,
                   rn_replay_failed, rn_early>>

\* `for i, action in enumerate(actions)`: the action replayed next.
\* (Sensitivity of C23: a replay that walks the plan from its end.)
next_replay_action_reversed == rn_plan[Len(rn_plan) - rn_i]
next_replay_action == rn_plan[rn_i + 1]

\* The dispatcher call for the next cached action returns (and the sleeps after it).
rn_replay_action ==
    /\ rn_pc = "replay"
    /\ rn_i < Len(rn_plan)
    /\ rn_dispatched' = Append(rn_dispatched, next_replay_action)
    /\ rn_i' = rn_i + 1
    /\ UNCHANGED <<enginevars, tlvars, rpvars, tmvars, sbvars, ntvars, cnvars, mkvars, ivvars, ackvars, fbvars, cdpvars, evvars, dspvars, keyvars, cachevars,
                   rn_pc, rn_plan, rn_client, rn_events, rn_status, rn_actions_count,
                   rn_method, rn_step_count, rn_records, rn_agent_ran, rn_cache_plans,
                   rn_replay_failed, rn_early>>

\* Where the run goes when replay_cached_plan returned False.
\* (Sensitivity of C24: a run that ends when the replay failed.)
after_failed_replay_stop == "done"
after_failed_replay == "agent"

\* The dispatcher call for the next cached action raises: the except block of
\* replay_cached_plan returns False and the run falls through to the Agent.
rn_replay_raises ==
    /\ rn_pc = "replay"
    /\ rn_i < Len(rn_plan)
    /\ rn_replay_failed' = TRUE
    /\ rn_pc' = after_failed_replay
    /\ UNCHANGED <<enginevars, tlvars, rpvars, tmvars, sbvars, ntvars, cnvars, mkvars, ivvars, ackvars, fbvars, cdpvars, evvars, dspvars, keyvars, cachevars,
                   rn_plan, rn_client, rn_i, rn_dispatched, rn_events, rn_status,
                   rn_actions_count, rn_method, rn_step_count, rn_records, rn_agent_ran,
                   rn_cache_plans, rn_early>>

\* The loop over the cached actions ended: replay_cached_plan returns True; the
\* run writes completed with actions_count = len(cached_actions) and result
\* method "replay", publishes session_complete and returns.
rn_replay_done ==
    /\ rn_pc = "replay"
    /\ rn_i = Len(rn_plan)
    /\ rn_status' = "completed"
    /\ rn_actions_count' = Len(rn_plan)
    /\ rn_method' = "replay"
    /\ rn_publish("session_complete", "Task completed via Instant Replay")
    /\ rn_pc' = "done"
    /\ UNCHANGED <<enginevars, tlvars, rpvars, tmvars, sbvars, ntvars, cnvars, mkvars, ivvars, ackvars, fbvars, cdpvars, evvars, dspvars, keyvars, cachevars,
                   rn_plan, rn_client, rn_i, rn_dispatched, rn_step_count, rn_records,
                   rn_agent_ran, rn_cache_plans, rn_replay_failed, rn_early>>

\* `if step_count >= 3` guards the early-stopping test.
early_stop_allowed(step) == step >= 3

\* The except block of run_agent_task: status failed and one error event.
rn_fails ==
    /\ rn_status' = "failed"
    /\ rn_pc' = "done"

\* One step of agent.run ends and on_step_end runs: step_count += 1.  With a
\* completion phrase in the step's evaluation or next goal, from step 3 on, the
\* hook publishes session_update and raises StopIteration; a coroutine that
\* raises StopIteration ends with RuntimeError, agent.run has awaited the hook
\* and raises it, and the except block of run_agent_task runs.  Otherwise the
\* hook inserts the action record (an insert that raises is caught and
\* printed) and publishes action_log and session_update.
rn_agent_step ==
    /\ rn_pc = "agent"
    /\ rn_step_count < MaxSteps
    /\ rn_agent_ran' = TRUE
    /\ rn_step_count' = rn_step_count + 1
    /\ \E phrase \in BOOLEAN, log_ok \in BOOLEAN :
          IF phrase /\ early_stop_allowed(rn_step_count + 1)
            THEN /\ rn_early' = rn_step_count + 1
                 /\ rn_events' = rn_events \o <<<<"session_update", "Task completed">>,
                                                <<"error", "coroutine raised StopIteration">>>>
                 /\ rn_fails
                 /\ UNCHANGED rn_records
            ELSE /\ rn_records' = IF log_ok THEN rn_records + 1 ELSE rn_records
                 /\ rn_events' = rn_events \o <<<<"action_log", "step">>,
                                                <<"session_update", "step">>>>
                 /\ UNCHANGED <<rn_early, rn_status, rn_pc>>
    /\ UNCHANGED <<enginevars, tlvars, rpvars, tmvars, sbvars, ntvars, cnvars, mkvars, ivvars, ackvars, fbvars, cdpvars, evvars, dspvars, keyvars, cachevars,
                   rn_plan, rn_client, rn_i, rn_dispatched, rn_actions_count, rn_method,
                   rn_cache_plans, rn_replay_failed>>

\* agent.run returns: completed with actions_count = step_count; cache_plan is
\* called when the extraction found replayable actions; session_complete.
rn_agent_complete ==
    /\ rn_pc = "agent"
    /\ rn_agent_ran' = TRUE
    /\ rn_status' = "completed"
    /\ rn_actions_count' = rn_step_count
    /\ rn_method' = "agent"
    /\ \E replayable \in BOOLEAN :
          rn_cache_plans' = IF replayable THEN rn_cache_plans + 1 ELSE rn_cache_plans
    /\ rn_publish("session_complete", "results")
    /\ rn_pc' = "done"
    /\ UNCHANGED <<enginevars, tlvars, rpvars, tmvars, sbvars, ntvars, cnvars, mkvars, ivvars, ackvars, fbvars, cdpvars, evvars, dspvars, keyvars, cachevars,
                   rn_plan, rn_client, rn_i, rn_dispatched, rn_step_count, rn_records,
                   rn_replay_failed, rn_early>>

\* agent.run raises an Exception of its own.
rn_agent_fail ==
    /\ rn_pc = "agent"
    /\ rn_agent_ran' = TRUE
    /\ rn_fails
    /\ rn_publish("error", "agent")
    /\ UNCHANGED <<enginevars, tlvars, rpvars, tmvars, sbvars, ntvars, cnvars, mkvars, ivvars, ackvars, fbvars, cdpvars, evvars, dspvars, keyvars, cachevars,
                   rn_plan, rn_client, rn_i, rn_dispatched, rn_actions_count, rn_method,
                   rn_step_count, rn_records, rn_cache_plans, rn_replay_failed, rn_early>>

NextRunDetail ==
    \/ rn_lookup
    \/ rn_replay_action
    \/ rn_replay_raises
    \/ rn_replay_done
    \/ rn_agent_step
    \/ rn_agent_complete
    \/ rn_agent_fail

SpecRun == Init /\ [][NextRunDetail]_vars

\* ------------------------------------------------------------- intervention
MaxIntervenes == 1

\* intervene_agent(session_id, message): with an agent in running_agents that
\* has add_new_task, the message is appended, one intervention event is
\* published and True is returned; otherwise False.  (Whether the Agent class
\* has add_new_task depends on the browser-use version installed.)
intervene_agent ==
    /\ Len(iv_calls) < MaxIntervenes
    /\ \E has_add_new_task \in BOOLEAN :
          LET registered == sid \in DOMAIN running_agents
              ok == registered /\ has_add_new_task
          IN /\ iv_calls' = Append(iv_calls, <<registered, has_add_new_task, ok, status>>)
             /\ iv_tasks' = IF ok THEN iv_tasks + 1 ELSE iv_tasks
             /\ iv_events' = IF ok THEN iv_events + 1 ELSE iv_events
    /\ UNCHANGED <<enginevars, tlvars, rpvars, tmvars, sbvars, ntvars, cnvars, mkvars, ackvars, fbvars, cdpvars, evvars, dspvars, keyvars, cachevars,
                   rnvars>>

\* SpecIntervene: runs started one after the other by the start endpoint and
\* stopped by cancel, with intervene_agent called at any moment.
NextIntervene ==
    \/ NoRunInProgress /\ start_session
    \/ \E r \in Runs : RunStep(r) \/ PumpStep(r)
    \/ \E c \in Cancels :
          \/ cancel_begin(c)
          \/ cancel_after_streaming(c)
          \/ cancel_finish(c)
    \/ intervene_agent

SpecIntervene == Init /\ [][NextIntervene]_vars

\* ------------------------------------------------------------- Set-of-Marks
MaxElements == 2
MaxShots == 2
MaxMarkClicks == 1
NoBox == << >>
Boxes == {<<0, 0, 100, 30>>, <<10, 20, 5, 7>>}
RECURSIVE SeqsUpTo(_, _)
SeqsUpTo(S, n) ==
    IF n = 0 THEN {<< >>}
    ELSE LET shorter == SeqsUpTo(S, n - 1)
         IN shorter \cup {Append(q, e) : q \in {t \in shorter : Len(t) = n - 1}, e \in S}
ElementLists == SeqsUpTo(Boxes \cup {NoBox}, MaxElements)
MarkIds == 0..(MaxElements + 1)

mark_id(m) == m[1]
center(m) == <<m[2], m[3]>>

\* SetOfMarks.create_marked_image: element i (0-based) gets mark_id i + 1; an
\* element whose bounding box is empty is skipped by `continue`.
RECURSIVE create_marked_image(_, _)
create_marked_image(elements, i) ==
    IF i >= Len(elements) THEN << >>
    ELSE LET bbox == elements[i + 1]
             rest == create_marked_image(elements, i + 1)
         IN IF bbox = NoBox THEN rest
            ELSE <<<<i + 1, bbox[1] + (bbox[3] \div 2), bbox[2] + (bbox[4] \div 2)>>>> \o rest

\* SetOfMarks.get_element_by_mark: first element with that mark_id, or None.
get_element_by_mark(id, marked_elements) ==
    LET hits == {k \in 1..Len(marked_elements) : mark_id(marked_elements[k]) = id}
    IN IF hits = {} THEN None
       ELSE marked_elements[CHOOSE k \in hits : \A j \in hits : k <= j]

get_click_coordinates(id, marked_elements) ==
    LET element == get_element_by_mark(id, marked_elements)
    IN IF element # None THEN center(element) ELSE None

\* run_agent_task 397-410: the browser is registered and owl_vision.initialize()
\* replaces the shared detector (left as it was when the constructor raises).
mk_register(s) ==
    /\ s \notin mk_browsers
    /\ mk_browsers' = mk_browsers \cup {s}
    /\ \E init \in {"ok", "unavailable", "raised"} :
          owl_available' = IF init = "raised" THEN owl_available ELSE init = "ok"
    /\ UNCHANGED <<enginevars, tlvars, rpvars, tmvars, sbvars, ntvars, cnvars, ackvars, fbvars, cdpvars, evvars, dspvars, keyvars, cachevars,
                   rnvars, ivvars, _current_marks, mk_elements, mk_owner, mk_shots, mk_click,
                   mk_mouse_clicks>>

\* on_step_end 699-706 -> OWLVisionService.analyze_page on a new screenshot of
\* session s: the marks of the detected elements replace _current_marks.
analyze_page(s) ==
    /\ s \in mk_browsers
    /\ owl_available
    /\ mk_shots[s] < MaxShots
    /\ \E elements \in ElementLists :
          /\ _current_marks' = create_marked_image(elements, 0)
          /\ mk_elements' = elements
    /\ mk_shots' = [mk_shots EXCEPT ![s] = @ + 1]
    /\ mk_owner' = <<s, mk_shots[s] + 1>>
    /\ UNCHANGED <<enginevars, tlvars, rpvars, tmvars, sbvars, ntvars, cnvars, ackvars, fbvars, cdpvars, evvars, dspvars, keyvars, cachevars,
                   rnvars, ivvars, owl_available, mk_browsers, mk_click, mk_mouse_clicks>>

\* analyze_page 119-121: the screenshot or the detection raised; "", [], "" is
\* returned and _current_marks is not touched.
analyze_page_fails(s) ==
    /\ s \in mk_browsers
    /\ owl_available
    /\ mk_shots[s] < MaxShots
    /\ mk_shots' = [mk_shots EXCEPT ![s] = @ + 1]
    /\ UNCHANGED <<enginevars, tlvars, rpvars, tmvars, sbvars, ntvars, cnvars, ackvars, fbvars, cdpvars, evvars, dspvars, keyvars, cachevars,
                   rnvars, ivvars, owl_available, _current_marks, mk_browsers, mk_elements,
                   mk_owner, mk_click, mk_mouse_clicks>>

\* agent_service.click_by_mark -> OWLVisionService.click_by_mark.
click_by_mark(s, id) ==
    /\ Len(mk_mouse_clicks) < MaxMarkClicks
    /\ LET coords == get_click_coordinates(id, _current_marks)
           success == s \in mk_browsers /\ owl_available /\ coords # None
       IN /\ mk_click' = <<s, id, success, IF success THEN coords ELSE None,
                           _current_marks, mk_owner, mk_shots[s],
                           s \in mk_browsers /\ owl_available>>
          /\ mk_mouse_clicks' = IF success THEN Append(mk_mouse_clicks, <<s>> \o coords)
                                ELSE mk_mouse_clicks
    /\ UNCHANGED <<enginevars, tlvars, rpvars, tmvars, sbvars, ntvars, cnvars, ackvars, fbvars, cdpvars, evvars, dspvars, keyvars, cachevars,
                   rnvars, ivvars, owl_available, _current_marks, mk_browsers, mk_elements,
                   mk_owner, mk_shots>>

NextMarks ==
    \/ \E s \in MarkSessions : mk_register(s)
    \/ \E s \in MarkSessions : analyze_page(s)
    \/ \E s \in MarkSessions : analyze_page_fails(s)
    \/ \E s \in MarkSessions, id \in MarkIds : click_by_mark(s, id)

SpecMarks == Init /\ [][NextMarks]_vars

\* ------------------------------------------------------- connecting to CDP
MaxClock == 20
wait_for_cdp_timeout == 15
get_timeout == 2
sleep_seconds == 1
MaxStartClock == 2
CDP_URL == "http://browser:9223"

\* run_agent_task 319-345: session_start is published; with a remote browser
\* wait_for_cdp is entered, otherwise the browser is created directly.
cn_begin ==
    /\ cn_pc = "idle"
    /\ \E remote \in BOOLEAN, now \in 0..MaxStartClock :
          /\ cn_remote' = remote
          /\ cn_clock' = now
          /\ cn_start' = now
          /\ cn_pc' = IF remote THEN "attempt" ELSE "browser"
    /\ cn_events' = Append(cn_events, "session_start")
    /\ UNCHANGED <<enginevars, tlvars, rpvars, tmvars, sbvars, ntvars, ackvars, fbvars, cdpvars, evvars, dspvars, keyvars, cachevars,
                   rnvars, ivvars, mkvars, cn_wait_ret, cn_status, cn_error_message, cn_did>>

\* wait_for_cdp 44-52: one GET of /json/version, cut off after get_timeout
\* seconds; status 200 with a JSON body returns True, everything else
\* (another status, an exception) falls through to the time check.
wait_attempt ==
    /\ cn_pc = "attempt"
    /\ \E took \in 0..get_timeout, answered \in BOOLEAN :
          /\ cn_clock + took <= MaxClock
          /\ cn_clock' = cn_clock + took
          /\ IF answered
             THEN cn_wait_ret' = "true" /\ cn_pc' = "browser"
             ELSE cn_wait_ret' = cn_wait_ret /\ cn_pc' = "check"
    /\ UNCHANGED <<enginevars, tlvars, rpvars, tmvars, sbvars, ntvars, ackvars, fbvars, cdpvars, evvars, dspvars, keyvars, cachevars,
                   rnvars, ivvars, mkvars, cn_remote, cn_start, cn_status, cn_error_message,
                   cn_events, cn_did>>

\* wait_for_cdp 54: the loop never gives up.
timed_out_never == FALSE
\* wait_for_cdp 54: `get_event_loop().time() - start_time > timeout`.
timed_out == cn_clock - cn_start > wait_for_cdp_timeout

\* wait_for_cdp 54-56 and run_agent_task 343-345, 872-884: on time-out False
\* is returned, ConnectionError is raised, and the except block stores failed
\* with the message and publishes the error event.
wait_check ==
    /\ cn_pc = "check"
    /\ IF timed_out
       THEN /\ cn_wait_ret' = "false"
            /\ cn_status' = "failed"
            /\ cn_error_message' = <<"Could not connect to browser at ", CDP_URL>>
            /\ cn_events' = Append(cn_events, "error")
            /\ cn_pc' = "finally"
       ELSE /\ cn_pc' = "sleep"
            /\ UNCHANGED <<cn_wait_ret, cn_status, cn_error_message, cn_events>>
    /\ UNCHANGED <<enginevars, tlvars, rpvars, tmvars, sbvars, ntvars, ackvars, fbvars, cdpvars, evvars, dspvars, keyvars, cachevars,
                   rnvars, ivvars, mkvars, cn_remote, cn_clock, cn_start, cn_did>>

\* wait_for_cdp 58: asyncio.sleep(1).
wait_sleep ==
    /\ cn_pc = "sleep"
    /\ cn_clock + sleep_seconds <= MaxClock
    /\ cn_clock' = cn_clock + sleep_seconds
    /\ cn_pc' = "attempt"
    /\ UNCHANGED <<enginevars, tlvars, rpvars, tmvars, sbvars, ntvars, ackvars, fbvars, cdpvars, evvars, dspvars, keyvars, cachevars,
                   rnvars, ivvars, mkvars, cn_remote, cn_start, cn_wait_ret, cn_status,
                   cn_error_message, cn_events, cn_did>>

\* run_agent_task 346-413: Browser, the CDP client of the Performance Core
\* (remote only; failures are swallowed), the Agent, the registration in
\* running_agents / running_browsers and start_streaming.
cn_browser ==
    /\ cn_pc = "browser"
    /\ \E core \in {"no_ws_url", "connected", "raised"} :
          cn_did' = cn_did \cup {"register", "start_streaming"}
                           \cup (IF cn_remote /\ core # "no_ws_url" THEN {"cdp_client"} ELSE {})
    /\ cn_pc' = "running"
    /\ UNCHANGED <<enginevars, tlvars, rpvars, tmvars, sbvars, ntvars, ackvars, fbvars, cdpvars, evvars, dspvars, keyvars, cachevars,
                   rnvars, ivvars, mkvars, cn_remote, cn_clock, cn_start, cn_wait_ret, cn_status,
                   cn_error_message, cn_events>>

\* run_agent_task 769-884: the run ends completed, or failed by an exception
\* of the Agent loop.
cn_run_ends ==
    /\ cn_pc = "running"
    /\ \E raised \in BOOLEAN :
          IF raised
          THEN /\ cn_status' = "failed"
               /\ cn_error_message' = <<"agent error">>
               /\ cn_events' = Append(cn_events, "error")
          ELSE /\ cn_status' = "completed"
               /\ cn_events' = Append(cn_events, "session_complete")
               /\ UNCHANGED cn_error_message
    /\ cn_pc' = "finally"
    /\ UNCHANGED <<enginevars, tlvars, rpvars, tmvars, sbvars, ntvars, ackvars, fbvars, cdpvars, evvars, dspvars, keyvars, cachevars,
                   rnvars, ivvars, mkvars, cn_remote, cn_clock, cn_start, cn_wait_ret, cn_did>>

\* run_agent_task 885-923: the finally block; it creates nothing.
cn_finally ==
    /\ cn_pc = "finally"
    /\ cn_pc' = "done"
    /\ UNCHANGED <<enginevars, tlvars, rpvars, tmvars, sbvars, ntvars, ackvars, fbvars, cdpvars, evvars, dspvars, keyvars, cachevars,
                   rnvars, ivvars, mkvars, cn_remote, cn_clock, cn_start, cn_wait_ret, cn_status,
                   cn_error_message, cn_events, cn_did>>

NextConnect ==
    \/ cn_begin
    \/ wait_attempt
    \/ wait_check
    \/ wait_sleep
    \/ cn_browser
    \/ cn_run_ends
    \/ cn_finally

SpecConnect == Init /\ [][NextConnect]_vars
\* asyncio runs a coroutine that is ready: every enabled step is taken.
SpecConnectFair == SpecConnect /\ WF_vars(NextConnect)

\* ------------------------------------------------------- notification rooms
\* What a client can send as the data of subscribe: a string, or a dict with
\* or without sessionId.
SubscribeData == {<<"str", s>> : s \in NotifySessions \cup {""}}
                 \cup {<<"dict", s>> : s \in NotifySessions} \cup {<<"dict">>}

\* subscribe 35: `data if isinstance(data, str) else data.get('sessionId')`.
session_id_of(data) == IF Len(data) = 2 THEN data[2] ELSE ""

members(room) == {room[k] : k \in 1..Len(room)}

\* A room that lists a connection once per subscribe.
enter_room_again(room, c) == Append(room, c)
\* sio.enter_room (subscribe 38): a room is a set of connections.
enter_room(room, c) == IF c \in members(room) THEN room ELSE Append(room, c)

leave_room(room, c) == SelectSeq(room, LAMBDA m : m # c)

\* connect 22-24.
ws_connect(c) ==
    /\ c \notin nt_connected
    /\ nt_connected' = nt_connected \cup {c}
    /\ UNCHANGED <<enginevars, tlvars, rpvars, tmvars, sbvars, ackvars, fbvars, cdpvars, evvars, dspvars, keyvars, cachevars,
                   rnvars, ivvars, mkvars, cnvars, nt_rooms, nt_subscribed, nt_log, nt_delivered>>

\* disconnect 26-28: the server takes a closed connection out of its rooms.
ws_disconnect(c) ==
    /\ c \in nt_connected
    /\ nt_connected' = nt_connected \ {c}
    /\ nt_rooms' = [s \in NotifySessions |-> leave_room(nt_rooms[s], c)]
    /\ nt_subscribed' = {p \in nt_subscribed : p[1] # c}
    /\ UNCHANGED <<enginevars, tlvars, rpvars, tmvars, sbvars, ackvars, fbvars, cdpvars, evvars, dspvars, keyvars, cachevars,
                   rnvars, ivvars, mkvars, cnvars, nt_log, nt_delivered>>

\* subscribe 30-40: with a session id in the data the connection enters the
\* room of that session.
subscribe(c, data) ==
    /\ c \in nt_connected
    /\ LET session_id == session_id_of(data)
       IN IF session_id # ""
          THEN /\ nt_rooms' = [nt_rooms EXCEPT ![session_id] = enter_room(@, c)]
               /\ nt_subscribed' = nt_subscribed \cup {<<c, session_id>>}
          ELSE UNCHANGED <<nt_rooms, nt_subscribed>>
    /\ UNCHANGED <<enginevars, tlvars, rpvars, tmvars, sbvars, ackvars, fbvars, cdpvars, evvars, dspvars, keyvars, cachevars,
                   rnvars, ivvars, mkvars, cnvars, nt_connected, nt_log, nt_delivered>>

\* notify_session 56-60: sio.emit(event, payload, room=session:<id>) hands one
\* copy to every entry of the room; an empty room is a no-op.
emit_to_room(s) ==
    /\ Len(nt_log) < MaxPublishes
    /\ LET n == Len(nt_log) + 1
           room == nt_rooms[s]
           copies(c) == Len(SelectSeq(room, LAMBDA m : m = c))
       IN /\ nt_delivered' = [c \in Connections |->
                                 nt_delivered[c] \o [k \in 1..copies(c) |-> n]]
          /\ nt_log' = Append(nt_log, <<s, {p[1] : p \in {q \in nt_subscribed : q[2] = s}}, TRUE>>)
    /\ UNCHANGED <<enginevars, tlvars, rpvars, tmvars, sbvars, ackvars, fbvars, cdpvars, evvars, dspvars, keyvars, cachevars,
                   rnvars, ivvars, mkvars, cnvars, nt_connected, nt_rooms, nt_subscribed>>

NextNotify ==
    \/ \E c \in Connections : ws_connect(c)
    \/ \E c \in Connections : ws_disconnect(c)
    \/ \E c \in Connections, data \in SubscribeData : subscribe(c, data)
    \/ \E s \in NotifySessions : emit_to_room(s)

SpecNotify == Init /\ [][NextNotify]_vars

\* ------------------------------------------------------- task decomposition
MaxSubtasks == 3
MaxIndex == 2
Indices == 0..MaxIndex
Subtasks == {<<i, deps>> : i \in Indices, deps \in SUBSET Indices}
Decompositions == SeqsUpTo(Subtasks, MaxSubtasks)

subtask_index(subtask) == subtask[1]
subtask_dependencies(subtask) == subtask[2]

\* Every subtask counts as ready.
deps_satisfied_always(subtask, completed_indices) == TRUE
\* get_next_subtask 284-287: all(dep in completed_indices for dep in dependencies).
deps_satisfied(subtask, completed_indices) ==
    \A dep_index \in subtask_dependencies(subtask) : dep_index \in completed_indices

\* TaskDecomposer.get_next_subtask 279-292: walk the list, skip completed
\* subtasks, return the first whose dependencies are satisfied, else None.
RECURSIVE get_next_subtask_from(_, _, _)
get_next_subtask_from(subtasks, completed_indices, k) ==
    IF k > Len(subtasks) THEN None
    ELSE IF subtask_index(subtasks[k]) \in completed_indices
         THEN get_next_subtask_from(subtasks, completed_indices, k + 1)
         ELSE IF deps_satisfied(subtasks[k], completed_indices)
              THEN subtasks[k]
              ELSE get_next_subtask_from(subtasks, completed_indices, k + 1)

get_next_subtask ==
    /\ sb_next = <<"unset">>
    /\ \E decomposition \in Decompositions, completed_indices \in SUBSET Indices :
          /\ sb_subtasks' = decomposition
          /\ sb_completed' = completed_indices
          /\ sb_next' = get_next_subtask_from(decomposition, completed_indices, 1)
    /\ UNCHANGED <<enginevars, tlvars, rpvars, tmvars, ackvars, fbvars, cdpvars, evvars, dspvars, keyvars, cachevars,
                   rnvars, ivvars, mkvars, cnvars, ntvars>>

NextSubtask == get_next_subtask

SpecSubtask == Init /\ [][NextSubtask]_vars

\* ------------------------------------------------------- termination order
ExitPaths == {"completion", "replay", "failure", "cancellation"}

\* run_agent_task up to start_streaming (365-413): the CDP client exists or
\* not, the pump task is created and stored in streaming_tasks.
tm_begin ==
    /\ tm_pc = "idle"
    /\ \E client \in BOOLEAN : tm_client' = client
    /\ tm_streaming' = TRUE
    /\ tm_pump' = "running"
    /\ tm_pc' = "try"
    /\ UNCHANGED <<enginevars, tlvars, rpvars, ackvars, fbvars, cdpvars, evvars, dspvars, keyvars, cachevars,
                   rnvars, ivvars, mkvars, cnvars, ntvars, sbvars, tm_exit, tm_stop, tm_log>>

\* stop_agent_task 933-936: the flag is set and stop_streaming pops the pump
\* task, cancels it and awaits it.
tm_stop_request ==
    /\ tm_pc = "try"
    /\ tm_stop = "none"
    /\ tm_streaming
    /\ tm_streaming' = FALSE
    /\ tm_pump' = IF tm_pump = "running" THEN "cancelling" ELSE tm_pump
    /\ tm_stop' = "await_pump"
    /\ UNCHANGED <<enginevars, tlvars, rpvars, ackvars, fbvars, cdpvars, evvars, dspvars, keyvars, cachevars,
                   rnvars, ivvars, mkvars, cnvars, ntvars, sbvars, tm_pc, tm_exit, tm_client, tm_log>>

\* The pump task ends (cancelled at its sleep).
tm_pump_exits ==
    /\ tm_pump = "cancelling"
    /\ tm_pump' = "done"
    /\ tm_log' = Append(tm_log, "pump_exited")
    /\ UNCHANGED <<enginevars, tlvars, rpvars, ackvars, fbvars, cdpvars, evvars, dspvars, keyvars, cachevars,
                   rnvars, ivvars, mkvars, cnvars, ntvars, sbvars, tm_pc, tm_exit, tm_client, tm_streaming, tm_stop>>

\* stop_agent_task 936: its `await task` returns once the pump is done.
tm_stop_returns ==
    /\ tm_stop = "await_pump"
    /\ tm_pump = "done"
    /\ tm_stop' = "returned"
    /\ UNCHANGED <<enginevars, tlvars, rpvars, ackvars, fbvars, cdpvars, evvars, dspvars, keyvars, cachevars,
                   rnvars, ivvars, mkvars, cnvars, ntvars, sbvars, tm_pc, tm_exit, tm_client, tm_streaming, tm_pump, tm_log>>

\* finally 899-904, run without suspending: the session leaves
\* running_agents, then stop_flags.
cleanup_registries == <<"agents_removed", "flag_cleared">>

\* The try block is left on one of the four paths (return after replay or at
\* the end, Exception into the except block, CancelledError from
\* on_step_end) and the finally block starts: stop_streaming (308-316) pops
\* and cancels the pump and awaits it; with no entry in streaming_tasks it
\* returns at once and the deletions follow without a suspension.
tm_enter_finally ==
    /\ tm_pc = "try"
    /\ \E path \in ExitPaths :
          /\ path = "cancellation" => tm_stop # "none"
          /\ tm_exit' = path
    /\ IF tm_streaming
       THEN /\ tm_streaming' = FALSE
            /\ tm_pump' = IF tm_pump = "running" THEN "cancelling" ELSE tm_pump
            /\ tm_pc' = "stop_streaming"
            /\ UNCHANGED tm_log
       ELSE /\ tm_log' = tm_log \o cleanup_registries
            /\ tm_pc' = "closing"
            /\ UNCHANGED <<tm_streaming, tm_pump>>
    /\ UNCHANGED <<enginevars, tlvars, rpvars, ackvars, fbvars, cdpvars, evvars, dspvars, keyvars, cachevars,
                   rnvars, ivvars, mkvars, cnvars, ntvars, sbvars, tm_client, tm_stop>>

\* finally 896-904: the awaited pump is done; the deletions follow.
tm_stop_streaming_returns ==
    /\ tm_pc = "stop_streaming"
    /\ tm_pump = "done"
    /\ tm_log' = tm_log \o cleanup_registries
    /\ tm_pc' = "closing"
    /\ UNCHANGED <<enginevars, tlvars, rpvars, ackvars, fbvars, cdpvars, evvars, dspvars, keyvars, cachevars,
                   rnvars, ivvars, mkvars, cnvars, ntvars, sbvars, tm_exit, tm_client, tm_streaming, tm_pump, tm_stop>>

\* finally 906-916: browser.close() inside try / except Exception.
tm_browser_close ==
    /\ tm_pc = "closing"
    /\ \E raised \in BOOLEAN :
          tm_log' = Append(tm_log, IF raised THEN "browser_close_failed" ELSE "browser_closed")
    /\ tm_pc' = "disconnect"
    /\ UNCHANGED <<enginevars, tlvars, rpvars, ackvars, fbvars, cdpvars, evvars, dspvars, keyvars, cachevars,
                   rnvars, ivvars, mkvars, cnvars, ntvars, sbvars, tm_exit, tm_client, tm_streaming, tm_pump, tm_stop>>

\* finally 918-923: cdp_client.disconnect() when a client is set.
tm_disconnect ==
    /\ tm_pc = "disconnect"
    /\ tm_log' = IF tm_client THEN Append(tm_log, "cdp_disconnected") ELSE tm_log
    /\ tm_pc' = "done"
    /\ UNCHANGED <<enginevars, tlvars, rpvars, ackvars, fbvars, cdpvars, evvars, dspvars, keyvars, cachevars,
                   rnvars, ivvars, mkvars, cnvars, ntvars, sbvars, tm_exit, tm_client, tm_streaming, tm_pump, tm_stop>>

NextTerminate ==
    \/ tm_begin
    \/ tm_stop_request
    \/ tm_pump_exits
    \/ tm_stop_returns
    \/ tm_enter_finally
    \/ tm_stop_streaming_returns
    \/ tm_browser_close
    \/ tm_disconnect

SpecTerminate == Init /\ [][NextTerminate]_vars

\* ----------------------------------------------------- replay of any plan
\* The rows of cached_plans are read from the shared store as they are: the
\* type of an action may be one of the three the dispatcher knows or another
\* one, and the field the branch needs may be missing.
MaxPlanLen == 2
ActionTypes == {"click", "type_text", "key_press", "scroll"}
StoredActions == {<<type, fields>> : type \in ActionTypes, fields \in BOOLEAN}
StoredPlans == SeqsUpTo(StoredActions, MaxPlanLen) \ {<< >>}

\* replay_cached_plan 454-464: the if / elif chain; an action that matches no
\* branch makes no dispatcher call and the loop goes on.
replay_branch(action) ==
    IF action[1] \in {"click", "type_text", "key_press"} /\ action[2] THEN action[1]
    ELSE "no_branch"

\* run_agent_task 430-443: a cache hit; replay_cached_plan returns False at
\* once without a cdp_client.
rp_begin ==
    /\ rp_pc = "idle"
    /\ \E plan \in StoredPlans, client \in {"none", "connected", "broken"} :
          /\ rp_plan' = plan
          /\ rp_client' = client
          /\ rp_pc' = IF client = "none" THEN "done" ELSE "loop"
    /\ UNCHANGED <<enginevars, tlvars, ackvars, fbvars, cdpvars, evvars, dspvars, keyvars, cachevars,
                   rnvars, ivvars, mkvars, cnvars, ntvars, sbvars, tmvars, rp_i, rp_dispatched, rp_status, rp_actions_count>>

\* One round of the for loop: the dispatcher call of the matching branch
\* returns, or raises (always with a broken client), which ends the replay
\* with False; without a matching branch nothing is called.
rp_action ==
    /\ rp_pc = "loop"
    /\ rp_i < Len(rp_plan)
    /\ IF replay_branch(rp_plan[rp_i + 1]) = "no_branch"
       THEN /\ rp_i' = rp_i + 1
            /\ UNCHANGED <<rp_dispatched, rp_pc>>
       ELSE \E raised \in BOOLEAN :
               /\ rp_client = "broken" => raised
               /\ IF raised
                  THEN /\ rp_pc' = "done"
                       /\ UNCHANGED <<rp_i, rp_dispatched>>
                  ELSE /\ rp_i' = rp_i + 1
                       /\ rp_dispatched' = rp_dispatched \cup {rp_i + 1}
                       /\ UNCHANGED rp_pc
    /\ UNCHANGED <<enginevars, tlvars, ackvars, fbvars, cdpvars, evvars, dspvars, keyvars, cachevars,
                   rnvars, ivvars, mkvars, cnvars, ntvars, sbvars, tmvars, rp_plan, rp_client, rp_status, rp_actions_count>>

\* replay_cached_plan 470-471 and run_agent_task 479-490: the loop ended, True
\* is returned, completed is written with actions_count = len(cached_actions).
rp_complete ==
    /\ rp_pc = "loop"
    /\ rp_i = Len(rp_plan)
    /\ rp_status' = "completed"
    /\ rp_actions_count' = Len(rp_plan)
    /\ rp_pc' = "done"
    /\ UNCHANGED <<enginevars, tlvars, ackvars, fbvars, cdpvars, evvars, dspvars, keyvars, cachevars,
                   rnvars, ivvars, mkvars, cnvars, ntvars, sbvars, tmvars, rp_plan, rp_client, rp_i, rp_dispatched>>

NextReplay ==
    \/ rp_begin
    \/ rp_action
    \/ rp_complete

SpecReplay == Init /\ [][NextReplay]_vars

\* ------------------------------------------------------------ CDP tools
MaxToolCalls == 2

\* init_cdp_tools 19-23: the module-level cdp_client, cdp_dispatcher and
\* a11y_provider are replaced by ones that wrap the given client.
init_cdp_tools(s) == s

\* run_agent_task 365-376: in container mode the run creates its CDPClient,
\* connects it and hands it to init_cdp_tools; when no page target is found no
\* client is created, and when connect() raises init_cdp_tools is not reached.
tl_run_begin(s) ==
    /\ tl_run[s] = "idle"
    /\ tl_run' = [tl_run EXCEPT ![s] = "running"]
    /\ \E core \in {"no_ws_url", "connected", "raised"} :
          /\ tl_client' = [tl_client EXCEPT ![s] =
                              CASE core = "no_ws_url" -> "none"
                                [] core = "connected" -> "connected"
                                [] OTHER -> "unconnected"]
          /\ tl_dispatcher' = IF core = "connected" THEN init_cdp_tools(s) ELSE tl_dispatcher
    /\ UNCHANGED <<enginevars, ackvars, fbvars, cdpvars, evvars, dspvars, keyvars, cachevars,
                   rnvars, ivvars, mkvars, cnvars, ntvars, sbvars, tmvars, rpvars, tl_calls>>

\* cdp_click / cdp_type / get_accessibility_tree 81-103, called by the Agent
\* of session s: "CDP not initialized" when the module-level dispatcher is
\* None, otherwise the call goes through the client that dispatcher wraps.
cdp_tool_call(s) ==
    /\ tl_run[s] = "running"
    /\ Len(tl_calls) < MaxToolCalls
    /\ tl_calls' = Append(tl_calls,
                          <<s, tl_dispatcher,
                            IF tl_dispatcher = 0 THEN "none" ELSE tl_client[tl_dispatcher]>>)
    /\ UNCHANGED <<enginevars, ackvars, fbvars, cdpvars, evvars, dspvars, keyvars, cachevars,
                   rnvars, ivvars, mkvars, cnvars, ntvars, sbvars, tmvars, rpvars, tl_run, tl_client, tl_dispatcher>>

\* run_agent_task 918-923: the finally block disconnects the run's own client;
\* the module-level tools are left as they are.
tl_run_end(s) ==
    /\ tl_run[s] = "running"
    /\ tl_run' = [tl_run EXCEPT ![s] = "done"]
    /\ tl_client' = [tl_client EXCEPT ![s] = IF @ = "none" THEN "none" ELSE "disconnected"]
    /\ UNCHANGED <<enginevars, ackvars, fbvars, cdpvars, evvars, dspvars, keyvars, cachevars,
                   rnvars, ivvars, mkvars, cnvars, ntvars, sbvars, tmvars, rpvars, tl_dispatcher, tl_calls>>

NextTools ==
    \/ \E s \in ToolSessions : tl_run_begin(s)
    \/ \E s \in ToolSessions : cdp_tool_call(s)
    \/ \E s \in ToolSessions : tl_run_end(s)

SpecTools == Init /\ [][NextTools]_vars

\* ------------------------------------------------------------- properties
\* Every run_agent_task invocation and every cancel request has returned.
AllReturned ==
    /\ \A r \in Runs : pc[r] \in {"idle", "done"}
    /\ \A c \in Cancels : cpc[c] \in {"idle", "done"}

\* Exactly one run was launched for the session.
OneRunLaunched == Cardinality({r \in Runs : pc[r] # "idle"}) = 1

\* The session is at rest after its only run: the run and every cancel request
\* have returned, no summary task is pending, the status is terminal.
SettledOneRun ==
    /\ OneRunLaunched
    /\ AllReturned
    /\ summary_tasks = {}
    /\ status \in Terminal

TotalTerminalEvents ==
    published["session_complete"] + published["session_stopped"] + published["error"]

\* C1: once the session of a single run has reached a terminal state, exactly
\* one terminal event out of session_complete, session_stopped and error has
\* been published, whatever the interleaving of the run with cancel requests.
C1_ExactlyOneTerminalEvent == SettledOneRun => TotalTerminalEvents = 1

\* C2: when cancel was requested while the Agent loop of the session's run was
\* running, then at rest a session_stopped event has been published and the
\* persisted status is cancelled.
C2_CancelDuringLoop ==
    (cancel_in_loop /\ SettledOneRun) =>
        (published["session_stopped"] >= 1 /\ status = "cancelled")

\* C3: when every run and every stop request of the session has returned, the
\* session id is a key of none of running_agents, running_browsers, stop_flags
\* and streaming_tasks.
C3_RegistriesCleared ==
    AllReturned =>
        /\ sid \notin DOMAIN running_agents
        /\ sid \notin DOMAIN running_browsers
        /\ sid \notin DOMAIN stop_flags
        /\ sid \notin DOMAIN streaming_tasks

\* C3 witness: two runs and a cancel request that arrived during an Agent
\* loop have all returned.
C3_Witness ==
    /\ AllReturned
    /\ cancel_in_loop
    /\ \A r \in Runs : pc[r] = "done"
    /\ \A c \in Cancels : cpc[c] = "done"

\* C4: at no time are two Agent loops of the session running.
C4_OneAgentLoop == Cardinality({r \in Runs : pc[r] = "agent"}) <= 1

\* C5: when stop_agent_task returns for a cancel request that arrived while
\* the Agent loop of the session's only run was running, no Agent loop of the
\* session is running.
C5_NoLoopAfterStop ==
    [][\A c \in Cancels :
          (cpc[c] = "closing" /\ cpc'[c] = "done" /\ cancel_in_loop /\ OneRunLaunched)
              => \A r \in Runs : pc'[r] # "agent"]_vars

\* C6: a terminal persisted status (completed, failed, cancelled) is never
\* changed by a later operation.
C6_TerminalStatusStable == [][(status \in Terminal) => (status' = status)]_vars

\* C7: the status failed written for a run whose Agent loop raised is still
\* failed when the summary task that run created has finished.
C7_FailedSurvivesSummary ==
    [][\A r \in Runs :
          (r \in summary_tasks /\ r \notin summary_tasks'
               /\ outcome[r] = "agent_failed" /\ status = "failed")
              => status' = "failed"]_vars

\* The tasks that stream frames of the session: the pump tasks of
\* agent_service past their set-up and not cancelled, and the _stream_loop
\* tasks the WebSocket start_stream handler created.
StreamingPumps == {p \in Runs : pump[p] \in {"screencast", "fallback"} /\ p \notin pump_cancel}
StreamingLoops == {k \in Streams : sl[k] = "running"}

\* C8: at no time are two Frame Pump tasks streaming for the session.
C8_OnePump == Cardinality(StreamingPumps) + Cardinality(StreamingLoops) <= 1

\* C9: after stop_streaming has returned and until a new pump is created, no
\* screenshot_stream event is published.
C9_NoFrameAfterStop ==
    [][(streaming_stopped /\ streaming_stopped') => (stream_events' = stream_events)]_vars

\* C10: every published screenshot_stream event carries a frameId, and the
\* frameId values are non-decreasing in publish order.
C10_FrameIds ==
    /\ \A i \in 1..Len(stream_events) : "frameId" \in DOMAIN stream_events[i]
    /\ \A i \in 1..Len(stream_events) : \A j \in i..Len(stream_events) :
          ("frameId" \in DOMAIN stream_events[i] /\ "frameId" \in DOMAIN stream_events[j])
              => stream_events[i].frameId <= stream_events[j].frameId

\* The acks sent for frame f.
AcksOf(f) == {i \in 1..Len(ack_sent) : ack_sent[i].frame = f}

\* C11: every frame whose handler has ended was acknowledged exactly once, with
\* its own CDP sessionId, and the acks were sent in the order of reception.
C11_OneAckPerFrame ==
    /\ \A f \in ack_done : Cardinality(AcksOf(f)) = 1
    /\ \A i \in 1..Len(ack_sent) : ack_sent[i].sessionId = ack_rx[ack_sent[i].frame]
    /\ \A i \in 1..Len(ack_sent) : \A j \in i..Len(ack_sent) :
          ack_sent[i].frame <= ack_sent[j].frame

\* C12: the polling loop has exited for failures exactly when its last
\* max_failures iterations all failed (screenshot raised or no active page):
\* it exits as soon as that happens, and never with a successful capture among
\* the last max_failures iterations.
C12_ExitAfterTenFailures ==
    /\ (fb_exit = "running" => fb_streak < max_failures)
    /\ (fb_exit = "failures" => fb_streak >= max_failures)

\* C12, second half alone: no exit for failures with a successful capture
\* among the last max_failures iterations.
C12_NoExitAfterCapture == (fb_exit = "failures") => (fb_streak >= max_failures)

\* C13: every call of CDPClient.send is resolved once (reply, remote error,
\* timeout or cancellation) and, once it is resolved, the id it took is no
\* longer a key of pending_commands -- also when the write to the transport
\* failed, when the connection went away and when the caller was cancelled.
C13_ResolvedNotPending ==
    \A c \in Sends : (send_pc[c] = "done" /\ send_cid[c] # -1)
                        => send_cid[c] \notin DOMAIN pending_commands

\* C14: the ids the calls of send take are pairwise distinct and each id taken
\* is greater than every id taken before, also when sends run concurrently;
\* and a reply frame resolves only the waiting send whose id equals the frame's.
IdsDistinct ==
    \A c, d \in Sends : (c # d /\ send_cid[c] # -1 /\ send_cid[d] # -1)
                           => send_cid[c] # send_cid[d]
IdsIncrease ==
    \A c \in Sends : (send_cid[c] = -1 /\ send_cid'[c] # -1)
                        => \A d \in Sends : send_cid'[c] > send_cid[d]
ReplyResolvesEqualId ==
    \A c \in Sends :
        (send_outcome[c] = "none" /\ send_outcome'[c] \in {"result", "remote_error"})
            => /\ send_cid[c] \notin replied
               /\ replied' = replied \cup {send_cid[c]}
               /\ \A d \in Sends \ {c} : send_outcome'[d] = send_outcome[d]
C14_DistinctIncreasingIds == [][IdsDistinct' /\ IdsIncrease /\ ReplyResolvesEqualId]_vars
\* Two sends in flight and the reply to the later one has been processed first.
C14_Witness ==
    \E c, d \in Sends : /\ send_cid[d] # -1 /\ send_cid[d] < send_cid[c]
                        /\ resolved_by[c] = send_cid[c]
                        /\ send_pc[d] = "waiting"

\* C15: when disconnect() runs while commands are pending, each pending send
\* fails with a cancellation error directly: none of them is left waiting for
\* its 10-second timeout or ends by it.
C15_DisconnectCancelsPending ==
    \A c \in Sends : send_cut[c] => (send_pc[c] = "done" /\ send_outcome[c] = "cancelled")

\* C16: from the return of disconnect() until connect() is called, a send fails
\* with a closed-connection error and writes nothing to the transport; send
\* does not open the connection again by itself.
C16_SendFailsWhileDisconnected ==
    \A c \in Sends : send_closed[c] =>
        /\ send_pc[c] \notin {"connecting", "writing", "waiting"}
        /\ \A k \in 1..Len(wire) : wire[k] # send_cid[c]
        /\ send_outcome[c] \notin {"result", "remote_error", "timeout"}

\* C17: an inbound frame with a method is delivered to every listener registered
\* under that method name, in registration order (a frame with an id only
\* resolves the matching pending command: ReplyResolvesEqualId).  Here: for
\* every event frame read, the callbacks asked for under its method name have
\* been run for it, earlier registrations first.
RunsFor(e) == SelectSeq(callbacks_run, LAMBDA r : r[2] = e)
WantedFor(m) == SelectSeq([l \in 1..Len(on_calls) |-> l], LAMBDA l : on_calls[l] = m)
C17_EventsReachListeners ==
    \A e \in 1..Len(events_rx) :
        LET want == WantedFor(events_rx[e]) IN
        /\ Len(RunsFor(e)) = Len(want)
        /\ \A k \in 1..Len(want) : RunsFor(e)[k][1] = want[k]

\* C18: click(x, y, count = n) emits one mouseMoved then n pairs (mousePressed,
\* mouseReleased) at the same (x, y); type_text emits one Input.insertText;
\* key_press emits keyDown then keyUp.  A command is sent only when every
\* earlier command of the action has been replied to, and after a command
\* failed the action sends nothing more.
ClickTypes(n) ==
    [k \in 1..(1 + 2 * n) |-> IF k = 1 THEN "mouseMoved"
                              ELSE IF k % 2 = 0 THEN "mousePressed" ELSE "mouseReleased"]
Emitted ==
    CASE call_kind = "click" ->
           /\ Len(dsp_sent) <= 1 + 2 * call_count
           /\ \A k \in 1..Len(dsp_sent) :
                 /\ cmd_method(dsp_sent[k]) = "Input.dispatchMouseEvent"
                 /\ cmd_type(dsp_sent[k]) = ClickTypes(call_count)[k]
                 /\ dsp_sent[k][3] = call_x /\ dsp_sent[k][4] = call_y
           /\ dsp_pc = "done" => Len(dsp_sent) = 1 + 2 * call_count
      [] call_kind = "type_text" ->
           /\ Len(dsp_sent) <= 1
           /\ \A k \in 1..Len(dsp_sent) : dsp_sent[k] = <<"Input.insertText", call_text>>
           /\ dsp_pc = "done" => Len(dsp_sent) = 1
      [] call_kind = "key_press" ->
           /\ Len(dsp_sent) <= 2
           /\ \A k \in 1..Len(dsp_sent) :
                 /\ cmd_method(dsp_sent[k]) = "Input.dispatchKeyEvent"
                 /\ cmd_type(dsp_sent[k]) = (IF k = 1 THEN "keyDown" ELSE "keyUp")
                 /\ dsp_sent[k][3] = call_key
           /\ dsp_pc = "done" => Len(dsp_sent) = 2
      [] OTHER -> dsp_sent = << >>
SentAfterReply == (Len(dsp_sent') > Len(dsp_sent)) => (dsp_replies = Len(dsp_sent))
NothingAfterFailure == (dsp_pc = "failed" /\ dsp_pc' = "failed") => (dsp_sent' = dsp_sent)
C18_DispatcherSequences == [][Emitted' /\ SentAfterReply /\ NothingAfterFailure]_vars
\* A double click ran to its end: five commands sent, five replies.
C18_Witness ==
    /\ call_kind = "click" /\ call_count = 2
    /\ dsp_pc = "done" /\ Len(dsp_sent) = 5 /\ dsp_replies = 5

\* C19: action_cache.cache_plan is called only by a run whose Agent loop
\* completed and that has already written status completed (never by a run
\* that failed, was cancelled or completed by replay), and a session whose plan
\* was cached ends with the persisted status completed.
CachedByCompletedRun ==
    (cache' # cache) => \E r \in Runs : /\ pc[r] = "agent"
                                        /\ outcome'[r] = "completed"
                                        /\ status' = "completed"
CachedEndsCompleted ==
    (cache /\ AllReturned /\ summary_tasks = {} /\ status \in Terminal)
        => status = "completed"
C19_CachePlanOnlyCompleted == [][CachedByCompletedRun /\ CachedEndsCompleted']_vars

\* C20: two (goal, url) pairs get the same cache key exactly when their goals
\* are equal after trimming and lower-casing and their urls are equal as given.
C20_KeyEqualIffNormalizedEqual ==
    \A i, j \in 1..Len(ck_key) :
        (ck_key[i] = ck_key[j])
            <=> (lower(strip(ck_goal[i])) = lower(strip(ck_goal[j])) /\ ck_url[i] = ck_url[j])
\* The same, for pairs whose urls have no surrounding whitespace: the separator
\* alone makes different pairs collide.
C20_KeyOfTrimmedUrls ==
    \A i, j \in 1..Len(ck_key) :
        (strip(ck_url[i]) = ck_url[i] /\ strip(ck_url[j]) = ck_url[j])
            => ((ck_key[i] = ck_key[j])
                   <=> (lower(strip(ck_goal[i])) = lower(strip(ck_goal[j]))
                          /\ ck_url[i] = ck_url[j]))

\* C21: a lookup returns exactly the actions, in order, of the last cache_plan
\* call with a non-empty list made under its key before it read the table (None
\* when there was none); a cache_plan call with an empty list changes nothing.
GetReturnsLastPut == \A c \in Callers : get_pc[c] = "done" => get_ret[c] = get_expect[c]
StoreHoldsLastPut ==
    /\ DOMAIN store = DOMAIN last_put
    /\ \A k \in DOMAIN store : row_actions(store[k]) = last_put[k]
C22_HitIncrementsByOne ==
    [][\A c \in Callers :
          (get_pc[c] = "hit" /\ get_pc'[c] = "done")
             => (row_success_count(store'[get_key[c]])
                   = row_success_count(store[get_key[c]]) + 1)]_vars

C24_ReplayFailureFallsBack ==
    [][/\ (~ rn_replay_failed /\ rn_replay_failed')
            => (rn_pc' = "agent" /\ rn_status' = rn_status /\ rn_events' = rn_events)
       /\ rn_replay_failed => rn_dispatched' = rn_dispatched
       /\ rn_replay_failed' =>
            (rn_i' < Len(rn_plan') /\ rn_dispatched' = SubSeq(rn_plan', 1, rn_i'))]_vars
\* The second action of a plan raised and the Agent loop then completed the run.
C24_Witness ==
    /\ rn_replay_failed /\ Len(rn_dispatched) = 1
    /\ rn_agent_ran /\ rn_step_count >= 1 /\ rn_pc = "done" /\ rn_status = "completed"

\* C25: early stopping does not trigger at steps 1 and 2, and a run in which it
\* triggered ends with status completed and session_complete published, without
\* an error event.
Published(name) == \E k \in 1..Len(rn_events) : rn_events[k][1] = name
C25_EarlyStopEndsNormally ==
    rn_early # 0 =>
        /\ rn_early >= 3
        /\ rn_pc = "done" => /\ rn_status = "completed"
                             /\ Published("session_complete")
                             /\ ~ Published("error")

\* C26: when the run has written completed, actions_count equals the number of
\* action records (success = true) the run inserted.
C26_ActionsCountMatchesRecords ==
    (rn_pc = "done" /\ rn_status = "completed") => rn_actions_count = rn_records
\* The same for runs completed by the Agent loop in which no insert failed.
C26_AgentRunsWithoutLogFailure ==
    (rn_pc = "done" /\ rn_method = "agent" /\ rn_records = rn_step_count)
        => rn_actions_count = rn_records

\* C27: intervene_agent returns true, appends the message once and publishes one
\* intervention event exactly when an Agent with add_new_task is registered for
\* the session; otherwise it returns false and changes nothing; and a call made
\* after the session reached a terminal status returns false.
ReturnedTrue == {k \in 1..Len(iv_calls) : iv_calls[k][3]}
C27_InterveneIffAgent ==
    /\ \A k \in 1..Len(iv_calls) : iv_calls[k][3] <=> (iv_calls[k][1] /\ iv_calls[k][2])
    /\ iv_tasks = Cardinality(ReturnedTrue)
    /\ iv_events = Cardinality(ReturnedTrue)
    /\ \A k \in 1..Len(iv_calls) : iv_calls[k][4] \in Terminal => ~ iv_calls[k][3]
\* The same without the clause about terminated sessions.
C27_InterveneIffAgentRegistered ==
    /\ \A k \in 1..Len(iv_calls) : iv_calls[k][3] <=> (iv_calls[k][1] /\ iv_calls[k][2])
    /\ iv_tasks = Cardinality(ReturnedTrue)
    /\ iv_events = Cardinality(ReturnedTrue)

\* C28: for every element list, the marks of a screenshot have the ids 1..N in
\* detection order; click_by_mark(i) with 1 <= i <= N succeeds with the center
\* of mark i, and click_by_mark(0) and click_by_mark(N + 1) fail without a click.
click_session == mk_click[1]
click_mark_id == mk_click[2]
click_success == mk_click[3]
click_coordinates == mk_click[4]
click_marks == mk_click[5]
click_owner == mk_click[6]
click_shot == mk_click[7]
click_ready == mk_click[8]
C28_MarksDenseAndClickInRange ==
    /\ \A k \in 1..Len(_current_marks) : mark_id(_current_marks[k]) = k
    /\ (mk_click # << >> /\ click_ready) =>
          LET N == Len(click_marks)
          IN /\ click_mark_id \in 1..N =>
                    click_success /\ click_coordinates = center(click_marks[click_mark_id])
             /\ click_mark_id \in {0, N + 1} => ~ click_success

\* C29: a click_by_mark of a session that succeeds used the marks of the most
\* recent screenshot of that same session.
C29_ClickUsesOwnLatestMarks ==
    (mk_click # << >> /\ click_success) => click_owner = <<click_session, click_shot>>

\* What does hold for click_by_mark: a call made with a registered browser and
\* the detector available succeeds exactly when some mark carries that id, and
\* then clicks at that mark's center once.
C28_ClickResolvesExistingMark ==
    (mk_click # << >> /\ click_ready) =>
        LET carriers == {k \in 1..Len(click_marks) : mark_id(click_marks[k]) = click_mark_id}
        IN /\ click_success <=> carriers # {}
           /\ click_success =>
                 /\ \A k \in carriers : click_coordinates = center(click_marks[k])
                 /\ mk_mouse_clicks = <<<<click_session>> \o click_coordinates>>
           /\ ~ click_success => mk_mouse_clicks = << >>

\* The single-session part of C29: a successful click of a session whose own
\* analysis wrote the marks used the marks of its most recent screenshot.
C29_NoStaleMarksAfterFailedAnalysis ==
    (mk_click # << >> /\ click_success /\ click_owner[1] = click_session) =>
        click_owner[2] = click_shot

\* C30: wait_for_cdp does not loop forever: it returns, and it returns False
\* only after more than the timeout has passed; a run whose wait returned False
\* ends failed with an error_message containing "Could not connect" and exactly
\* one error event, without having registered the Agent or browser, started a
\* Frame Pump or created a CDP client.
InWait == cn_pc \in {"attempt", "check", "sleep"}
ErrorEvents == {k \in 1..Len(cn_events) : cn_events[k] = "error"}
CopiesOf(n, c) == Len(SelectSeq(nt_delivered[c], LAMBDA k : k = n))
Ready == {k \in 1..Len(sb_subtasks) :
            /\ sb_subtasks[k][1] \notin sb_completed
            /\ sb_subtasks[k][2] \subseteq sb_completed}
C32_NextSubtaskIsFirstReady ==
    sb_next # <<"unset">> =>
        /\ Ready # {} => sb_next = sb_subtasks[CHOOSE k \in Ready : \A j \in Ready : k <= j]
        /\ Ready = {} => sb_next = None
        /\ sb_next # None => sb_next[1] \notin sb_completed /\ sb_next[2] \subseteq sb_completed
        /\ (\A k \in 1..Len(sb_subtasks) : sb_subtasks[k][1] \in sb_completed) => sb_next = None
\* The call passed over a completed subtask and one with an unsatisfied
\* dependency and returned the third.
C32_Witness ==
    /\ Len(sb_subtasks) = 3
    /\ sb_subtasks[1][1] \in sb_completed
    /\ sb_subtasks[2][1] \notin sb_completed /\ ~ (sb_subtasks[2][2] \subseteq sb_completed)
    /\ sb_next = sb_subtasks[3]

\* C33: whenever a terminal status is persisted, the session has already been
\* removed from running_agents, running_browsers, stop_flags and
\* streaming_tasks: right after the step that writes the status none of them
\* holds the session.
RegistriesHoldSession ==
    \/ sid \in DOMAIN running_agents
    \/ sid \in DOMAIN running_browsers
    \/ sid \in DOMAIN stop_flags
    \/ sid \in DOMAIN streaming_tasks
C33_RegistriesClearedBeforeTerminal ==
    [][(status' \in Terminal /\ status' # status) => ~ RegistriesHoldSession']_vars

\* C34: a stop flag that is set while an Agent loop of the session is running
\* stays set as long as that loop keeps running, so that the loop's next
\* step_end finds it.
StopFlagSet == sid \in DOMAIN stop_flags
C34_StopFlagOutlivesLoop ==
    [][\A r \in Runs :
          (StopFlagSet /\ pc[r] = "agent" /\ pc'[r] = "agent") => StopFlagSet']_vars

\* C35: a screencast pump that has finished after Page.startScreencast
\* succeeded has attempted Page.stopScreencast, whatever made it exit.
C35_StopScreencastOnExit ==
    \A p \in DOMAIN pump : pump[p] = "done" => p \notin screencast_on

\* C36: on every exit path the finished run has gone through termination in
\* this order: the pump has exited, then the session left running_agents and
\* the stop flag was cleared, then the browser close was attempted, then the
\* CDP client (if there is one) was disconnected, also when the close failed.
Position(what) == IF \E k \in 1..Len(tm_log) : tm_log[k] = what
                  THEN CHOOSE k \in 1..Len(tm_log) : tm_log[k] = what
                  ELSE 0
CloseAttempt == IF Position("browser_closed") # 0 THEN Position("browser_closed")
                ELSE Position("browser_close_failed")
TerminationOrder ==
    /\ Position("pump_exited") # 0
    /\ Position("pump_exited") < Position("agents_removed")
    /\ Position("agents_removed") < Position("flag_cleared")
    /\ Position("flag_cleared") < CloseAttempt
    /\ tm_client => CloseAttempt < Position("cdp_disconnected")
C36_TerminationOrder == tm_pc = "done" => TerminationOrder
\* The same for runs that no stop request overlapped with.
C36_OrderWithoutStopRequest == (tm_pc = "done" /\ tm_stop = "none") => TerminationOrder

\* C37: under any interleaving of start_stream and stop_stream for the
\* session, active_sessions holds the session exactly when one of its stream
\* loops is running, and names that loop: never a running loop that
\* stop_stream cannot reach, never two running loops.
RunningLoops == {k \in Streams : sl[k] = "running"}
C37_ActiveSessionsNameTheLoop ==
    /\ Cardinality(RunningLoops) <= 1
    /\ \A k \in RunningLoops : sid \in DOMAIN active_sessions /\ active_sessions[sid] = k
    /\ sid \in DOMAIN active_sessions => active_sessions[sid] \in RunningLoops

\* C38: a run in which the replay failed writes nothing to the plan cache: the
\* Agent loop that follows the failed replay never reaches cache_plan, so the
\* row stored under the (goal, url) key keeps its actions.
C38_NoCacheWriteAfterFailedReplay == rn_replay_failed => rn_cache_plans = 0

\* C39: a replay that is reported successful (completed, actions_count =
\* number of cached actions) has produced a dispatcher call for every cached
\* action, and its run had a connected CDP client.
C39_ReplaySuccessMeansAllDispatched ==
    rp_status = "completed" =>
        /\ rp_actions_count = Cardinality(rp_dispatched)
        /\ rp_dispatched = 1..Len(rp_plan)
        /\ rp_client = "connected"
\* The same for plans made only of well-formed click, type_text and key_press
\* actions.
C39_WellFormedPlansAllDispatched ==
    (rp_status = "completed"
       /\ \A k \in 1..Len(rp_plan) : replay_branch(rp_plan[k]) # "no_branch") =>
        /\ rp_actions_count = Cardinality(rp_dispatched)
        /\ rp_dispatched = 1..Len(rp_plan)
        /\ rp_client = "connected"

\* C40: a CDP tool call of the Agent of session S that is sent goes through
\* the client created by S's own run, also with two sessions running and
\* after another session has ended and disconnected its client.
C40_ToolsUseOwnClient ==
    \A k \in 1..Len(tl_calls) : tl_calls[k][2] # 0 => tl_calls[k][2] = tl_calls[k][1]
\* The part of C40 about ended sessions: no call goes through a client that
\* its run has disconnected.
C40_NoCallThroughDisconnectedClient ==
    \A k \in 1..Len(tl_calls) : tl_calls[k][3] # "disconnected"

====
